---- MODULE Spec2Model ----
(***************************************************************************)
(* Playback engine of the trace-based visualisation system                 *)
(* (packages/simulation/engine/engine.go) together with the producer       *)
(* life-cycle it drives (Simulation interface, as implemented by           *)
(* projects/query-parser/simulation/simulation.go) and the autoplay        *)
(* goroutine started by Engine.Play.                                       *)
(*                                                                         *)
(* Every Engine method that takes e.mu is one atomic action.  The playLoop *)
(* goroutine is split at the points where it does not hold the lock.       *)
(* Speeds are in hundredths (1.0 is 100); channels and tickers are named   *)
(* by the number of the Play call that made them.                          *)
(***************************************************************************)
EXTENDS Integers, Sequences, FiniteSets, TLC

\* ------------------------------------------------------------ bounds
\* longest trace a producer generates
MaxTrace == 2
\* cap on len(e.history), which the code lets grow without limit
MaxHistory == 3
\* cap on the number of successful Play calls (goroutines started)
MaxPlays == 1
\* playLoop goroutines are named 1..MaxTasks; the cap on the number of
\* successful Play calls where a Play is accepted while a goroutine runs
MaxTasks == 2
\* keys offered to the B-Tree are 1..MaxKey
MaxKey == 6
\* cap on the number of nodes a B-Tree has created (its nodeSeq)
MaxNodes == 6
\* orders a B-Tree is configured with are 3..MaxOrder
MaxOrder == 4
\* cap on the number of transactions a store has begun (its txSeq)
MaxTx == 3
\* transactions that are handed to Write and Delete are 1..MaxWriters; the
\* later ones only read, commit and abort
MaxWriters == 2
\* rows written, read and deleted are 1..MaxRow
MaxRow == 1
\* cap on the number of versions a store has created (its verSeq)
MaxVersions == 2
\* cap on len(tx.WriteSet), which Write and Delete let grow without limit
MaxWrites == 2
\* cap on len(tx.ReadSet), which Read lets grow without limit
MaxReads == 1
\* queries written word by word have at most MaxWords words
MaxWords == 4

\* ------------------------------------------------------------ constants
\* protocol.SimulationMode
ModeIdle == "idle"
ModePlaying == "playing"
ModePaused == "paused"
ModeStep == "step"
Modes == {ModeIdle, ModePlaying, ModePaused, ModeStep}

\* the errors of engine.go; NoErr is Go's nil error
NoErr == "nil"
ErrNotInitialized == "simulation not initialized"
ErrAlreadyRunning == "simulation already running"
ErrNoMoreSteps == "no more steps available"
ErrNoPreviousSteps == "no previous steps available"
ErrInvalidStepIndex == "invalid step index"

\* speed limits of SetSpeed and the initial speed of NewEngine, in hundredths
MinSpeed == 25
MaxSpeed == 400
InitialSpeed == 100

\* speeds a client may ask for (0.01, 2.5, 10.0)
SpeedInputs == {1, 250, 1000}
\* trace lengths a start request may produce (0: a producer whose
\* Initialize generates no steps)
TraceLens == {0, MaxTrace}

\* ------------------------------------------------------------ producer
\* The steps of the trace generated for request n: step i carries its own
\* index, title, description and highlights (addStep).
StepOf(n, i) ==
  [Index |-> i, Title |-> 100 + 10 * n + i, Description |-> 200 + 10 * n + i,
   Highlights |-> {10 * n + i}]

\* NewParserSimulation: no query, no tokens, no steps
NewSimulation ==
  [steps |-> <<>>, currentStep |-> -1, data |-> [query |-> 0, tokens |-> 0]]

\* Simulation.Initialize(config): the producer runs the whole operation and
\* keeps the generated steps; without a query nothing is generated.
SimInitialize(s, n) ==
  IF n > 0
    THEN [steps |-> [i \in 1..n |-> StepOf(n, i - 1)], currentStep |-> -1,
          data |-> [query |-> n, tokens |-> n]]
    ELSE [steps |-> <<>>, currentStep |-> -1,
          data |-> [query |-> s.data.query, tokens |-> 0]]

\* Simulation.Reset(): drops tokens, AST and steps (the query text is kept)
SimReset(s) ==
  [steps |-> <<>>, currentStep |-> -1,
   data |-> [query |-> s.data.query, tokens |-> 0]]

\* Simulation.GenerateSteps(): the producer's own slice
GenerateSteps(s) == s.steps

\* Simulation.GetVisualizationData()
GetVisualizationData(s) == s.data

\* the zero StepResult apart from Error, returned for a bad index
InvalidResult ==
  [Success |-> FALSE, Error |-> ErrInvalidStepIndex, Highlights |-> {},
   Data |-> [query |-> -1, tokens |-> -1], Description |-> 0]

\* Simulation.ExecuteStep(index): reads the producer's steps, not the engine's
ExecuteStep(s, index) ==
  IF index < 0 \/ index >= Len(s.steps)
    THEN [sim |-> s, result |-> InvalidResult]
    ELSE [sim |-> [s EXCEPT !.currentStep = index],
          result |-> [Success |-> TRUE, Error |-> NoErr,
                      Highlights |-> s.steps[index + 1].Highlights,
                      Data |-> GetVisualizationData(s),
                      Description |-> s.steps[index + 1].Description]]

\* ------------------------------------------------------------ engine
\* NewEngine: idle, cursor -1, no steps, speed 1.0, no ticker, a fresh
\* stop channel (channel 0)
NewEngine ==
  [mode |-> ModeIdle, currentStep |-> -1, steps |-> <<>>, history |-> <<>>,
   speed |-> InitialSpeed, ticker |-> 0, stopChan |-> 0]

\* a nil *StepInfo
NilStepInfo ==
  [Index |-> -1, Total |-> 0, Title |-> 0, Description |-> 0, Highlights |-> {}]

\* Engine.GetState (takes no lock itself)
GetState(e, s) ==
  [Mode |-> e.mode, Speed |-> e.speed,
   CurrentStep |->
     IF e.currentStep >= 0 /\ e.currentStep < Len(e.steps)
       THEN [Index |-> e.steps[e.currentStep + 1].Index,
             Total |-> Len(e.steps),
             Title |-> e.steps[e.currentStep + 1].Title,
             Description |-> e.steps[e.currentStep + 1].Description,
             Highlights |->
               IF e.currentStep < Len(e.history)
                 THEN e.history[e.currentStep + 1].Highlights
                 ELSE e.steps[e.currentStep + 1].Highlights]
       ELSE NilStepInfo,
   TotalSteps |-> Len(e.steps),
   Data |-> GetVisualizationData(s)]

\* Engine.buildStepUpdate(result)
buildStepUpdate(e, s, result) ==
  [Step |->
     IF e.currentStep >= 0 /\ e.currentStep < Len(e.steps)
       THEN [Index |-> e.currentStep, Total |-> Len(e.steps),
             Title |-> e.steps[e.currentStep + 1].Title,
             Description |-> result.Description,
             Highlights |-> result.Highlights]
       ELSE [Index |-> 0, Total |-> 0, Title |-> 0, Description |-> 0,
             Highlights |-> {}],
   StepData |-> result.Data,
   Highlights |-> result.Highlights,
   Data |-> GetVisualizationData(s)]

\* An operation hands back a record: the world after it (e, sim, closed
\* channels, tickers), its error (err) and the event it emitted (out).
\* the operation emitted nothing
NoEvent == [event |-> "none", payload |-> <<>>]

Emit(event, payload) == [event |-> event, payload |-> payload]

\* Engine.Stop (takes no lock itself): signals the loop only when the mode
\* is playing, and always leaves the mode idle
Stop(e, closed, tickers) ==
  IF e.mode = ModePlaying
    THEN [e |-> [e EXCEPT !.mode = ModeIdle],
          closed |-> closed \cup {e.stopChan},
          tickers |-> IF e.ticker # 0
                        THEN [tickers EXCEPT ![e.ticker] = "stopped"]
                        ELSE tickers]
    ELSE [e |-> [e EXCEPT !.mode = ModeIdle], closed |-> closed,
          tickers |-> tickers]

\* Engine.Initialize(config)
Initialize(e, s, closed, tickers, n) ==
  LET s1 == SimInitialize(s, n)
      e1 == [e EXCEPT !.steps = GenerateSteps(s1), !.currentStep = -1,
                      !.history = <<>>, !.mode = ModeIdle]
  IN  [e |-> e1, sim |-> s1, closed |-> closed, tickers |-> tickers,
       err |-> NoErr, out |-> Emit("initialized", GetState(e1, s1))]

\* Engine.Reset()
Reset(e, s, closed, tickers) ==
  LET st == Stop(e, closed, tickers)
      s1 == SimReset(s)
      e1 == [st.e EXCEPT !.steps = GenerateSteps(s1), !.currentStep = -1,
                         !.history = <<>>, !.mode = ModeIdle]
  IN  [e |-> e1, sim |-> s1, closed |-> st.closed, tickers |-> st.tickers,
       err |-> NoErr, out |-> Emit("reset", GetState(e1, s1))]

\* StepForward with the cursor moved past the step it has just executed
StepForwardSkipping(e, s, closed, tickers) ==
  IF Len(e.steps) = 0
    THEN [e |-> e, sim |-> s, closed |-> closed, tickers |-> tickers,
          err |-> ErrNotInitialized, out |-> NoEvent]
  ELSE IF e.currentStep + 1 >= Len(e.steps)
    THEN [e |-> e, sim |-> s, closed |-> closed, tickers |-> tickers,
          err |-> ErrNoMoreSteps, out |-> NoEvent]
  ELSE
    LET x == ExecuteStep(s, e.currentStep + 1)
        e1 == [e EXCEPT !.currentStep =
                          IF e.currentStep + 2 < Len(e.steps)
                            THEN e.currentStep + 2 ELSE e.currentStep + 1,
                        !.history = Append(e.history, x.result),
                        !.mode = ModeStep]
    IN  [e |-> e1, sim |-> x.sim, closed |-> closed, tickers |-> tickers,
         err |-> NoErr,
         out |-> Emit("step_forward", buildStepUpdate(e1, x.sim, x.result))]

\* StepForward without the check for the end of the trace
StepForwardUnbounded(e, s, closed, tickers) ==
  IF Len(e.steps) = 0
    THEN [e |-> e, sim |-> s, closed |-> closed, tickers |-> tickers,
          err |-> ErrNotInitialized, out |-> NoEvent]
  ELSE
    LET x == ExecuteStep(s, e.currentStep + 1)
        e1 == [e EXCEPT !.currentStep = e.currentStep + 1,
                        !.history = Append(e.history, x.result),
                        !.mode = ModeStep]
    IN  [e |-> e1, sim |-> x.sim, closed |-> closed, tickers |-> tickers,
         err |-> NoErr,
         out |-> Emit("step_forward", buildStepUpdate(e1, x.sim, x.result))]

\* Engine.StepForward()
StepForward(e, s, closed, tickers) ==
  IF Len(e.steps) = 0
    THEN [e |-> e, sim |-> s, closed |-> closed, tickers |-> tickers,
          err |-> ErrNotInitialized, out |-> NoEvent]
  ELSE IF e.currentStep + 1 >= Len(e.steps)
    THEN [e |-> e, sim |-> s, closed |-> closed, tickers |-> tickers,
          err |-> ErrNoMoreSteps, out |-> NoEvent]
  ELSE
    LET x == ExecuteStep(s, e.currentStep + 1)
        e1 == [e EXCEPT !.currentStep = e.currentStep + 1,
                        !.history = Append(e.history, x.result),
                        !.mode = ModeStep]
    IN  [e |-> e1, sim |-> x.sim, closed |-> closed, tickers |-> tickers,
         err |-> NoErr,
         out |-> Emit("step_forward", buildStepUpdate(e1, x.sim, x.result))]

\* StepBackward without the check for the start of the trace
StepBackwardUnguarded(e, s, closed, tickers) ==
  LET e1 == [e EXCEPT !.currentStep = e.currentStep - 1]
  IN  IF e1.currentStep >= 0 /\ Len(e1.history) > e1.currentStep
        THEN [e |-> e1, sim |-> s, closed |-> closed, tickers |-> tickers,
              err |-> NoErr,
              out |-> Emit("step_backward",
                           buildStepUpdate(e1, s,
                                           e1.history[e1.currentStep + 1]))]
        ELSE
          LET s1 == SimReset(s)
              e2 == [e1 EXCEPT !.history = <<>>, !.mode = ModeIdle]
          IN  [e |-> e2, sim |-> s1, closed |-> closed,
               tickers |-> tickers, err |-> NoErr,
               out |-> Emit("step_backward", GetState(e2, s1))]

\* Engine.StepBackward()
StepBackward(e, s, closed, tickers) ==
  IF e.currentStep < 0
    THEN [e |-> e, sim |-> s, closed |-> closed, tickers |-> tickers,
          err |-> ErrNoPreviousSteps, out |-> NoEvent]
  ELSE
    LET e1 == [e EXCEPT !.currentStep = e.currentStep - 1]
    IN  IF e1.currentStep >= 0 /\ Len(e1.history) > e1.currentStep
          THEN [e |-> e1, sim |-> s, closed |-> closed, tickers |-> tickers,
                err |-> NoErr,
                out |-> Emit("step_backward",
                             buildStepUpdate(e1, s,
                                             e1.history[e1.currentStep + 1]))]
          ELSE
            LET s1 == SimReset(s)
                e2 == [e1 EXCEPT !.history = <<>>, !.mode = ModeIdle]
            IN  [e |-> e2, sim |-> s1, closed |-> closed,
                 tickers |-> tickers, err |-> NoErr,
                 out |-> Emit("step_backward", GetState(e2, s1))]

\* Play without the check for a playback already running
PlayUnchecked(e, s, closed, tickers) ==
  IF Len(e.steps) = 0
    THEN [e |-> e, sim |-> s, closed |-> closed, tickers |-> tickers,
          err |-> ErrNotInitialized, out |-> NoEvent]
  ELSE
    LET e1 == [e EXCEPT !.mode = ModePlaying, !.stopChan = e.stopChan + 1]
    IN  [e |-> e1, sim |-> s, closed |-> closed, tickers |-> tickers,
         err |-> NoErr, out |-> Emit("play", GetState(e1, s))]

\* Engine.Play(): the new stop channel is named after this Play call; the
\* goroutine it starts is added by the action
Play(e, s, closed, tickers) ==
  IF e.mode = ModePlaying
    THEN [e |-> e, sim |-> s, closed |-> closed, tickers |-> tickers,
          err |-> ErrAlreadyRunning, out |-> NoEvent]
  ELSE IF Len(e.steps) = 0
    THEN [e |-> e, sim |-> s, closed |-> closed, tickers |-> tickers,
          err |-> ErrNotInitialized, out |-> NoEvent]
  ELSE
    LET e1 == [e EXCEPT !.mode = ModePlaying, !.stopChan = e.stopChan + 1]
    IN  [e |-> e1, sim |-> s, closed |-> closed, tickers |-> tickers,
         err |-> NoErr, out |-> Emit("play", GetState(e1, s))]

\* Engine.Pause()
Pause(e, s, closed, tickers) ==
  LET e1 == IF e.mode = ModePlaying THEN [e EXCEPT !.mode = ModePaused] ELSE e
  IN  [e |-> e1, sim |-> s,
       closed |-> IF e.mode = ModePlaying THEN closed \cup {e.stopChan}
                                          ELSE closed,
       tickers |-> IF e.mode = ModePlaying /\ e.ticker # 0
                     THEN [tickers EXCEPT ![e.ticker] = "stopped"]
                     ELSE tickers,
       err |-> NoErr, out |-> Emit("pause", GetState(e1, s))]

\* SetSpeed without the upper limit
SetSpeedNoUpperLimit(e, s, closed, tickers, speed) ==
  LET s1 == IF speed < MinSpeed THEN MinSpeed ELSE speed
  IN  [e |-> [e EXCEPT !.speed = s1], sim |-> s, closed |-> closed,
       tickers |-> tickers, err |-> NoErr,
       out |-> Emit("speed_changed", [speed |-> s1])]

\* Engine.SetSpeed(speed)
SetSpeed(e, s, closed, tickers, speed) ==
  LET s1 == IF speed < MinSpeed THEN MinSpeed ELSE speed
      s2 == IF s1 > MaxSpeed THEN MaxSpeed ELSE s1
  IN  [e |-> [e EXCEPT !.speed = s2], sim |-> s, closed |-> closed,
       tickers |-> tickers, err |-> NoErr,
       out |-> Emit("speed_changed", [speed |-> s2])]

\* ------------------------------------------------------------ B-Tree
\* projects/btree/internal: a BTree is [Order, RootID, Nodes, nodeSeq].
\* Node ids are numbers ("node-7" is 7), the id "" is 0, and Nodes is a
\* function on the ids present in the map.  A node is
\* [Keys, Children, IsLeaf, Parent]; slices are sequences, and the 0-based
\* index i of the code is the index i + 1 here.
NoNode == 0

\* the empty map
NoNodes == [id \in {} |-> 0]

\* insertAt / insertAtStr (index 0-based)
InsertAt(slice, index, value) ==
  SubSeq(slice, 1, index) \o <<value>> \o SubSeq(slice, index + 1, Len(slice))

\* removeAt / removeAtStr (index 0-based)
RemoveAt(slice, index) ==
  SubSeq(slice, 1, index) \o SubSeq(slice, index + 2, Len(slice))

\* `i := 0; for i < len(keys) && key > keys[i] { i++ }`: the final i
ScanUp(keys, key) ==
  LET stops == {j \in 1..Len(keys) : ~(key > keys[j])}
  IN  IF stops = {} THEN Len(keys)
      ELSE (CHOOSE j \in stops : \A k \in stops : j <= k) - 1

\* `i := len(keys)-1; for i >= 0 && key < keys[i] { i-- }`: the final i + 1
ScanDown(keys, key) ==
  LET stops == {j \in 1..Len(keys) : ~(key < keys[j])}
  IN  IF stops = {} THEN 0
      ELSE CHOOSE j \in stops : \A k \in stops : j >= k

\* NewBTree(order)
NewBTree(order) ==
  [Order |-> IF order < 3 THEN 3 ELSE order, RootID |-> NoNode,
   Nodes |-> NoNodes, nodeSeq |-> 0]

\* createNode(isLeaf): the new node's id is the new nodeSeq
createNode(bt, isLeaf) ==
  LET id == bt.nodeSeq + 1
  IN  [bt EXCEPT !.nodeSeq = id,
                 !.Nodes = (id :> [Keys |-> <<>>, Children |-> <<>>,
                                   IsLeaf |-> isLeaf, Parent |-> NoNode])
                           @@ bt.Nodes]

\* the nodes named by ids get a new parent
Reparent(nodes, ids, parent) ==
  [id \in DOMAIN nodes |->
     IF \E j \in 1..Len(ids) : ids[j] = id
       THEN [nodes[id] EXCEPT !.Parent = parent] ELSE nodes[id]]

\* splitChild(parentID, childIndex)
splitChild(bt, parentID, childIndex) ==
  LET fullID == bt.Nodes[parentID].Children[childIndex + 1]
      fullChild == bt.Nodes[fullID]
      b1 == createNode(bt, fullChild.IsLeaf)
      newID == b1.nodeSeq
      mid == (bt.Order - 1) \div 2
      medianKey == fullChild.Keys[mid + 1]
      newKeys == SubSeq(fullChild.Keys, mid + 2, Len(fullChild.Keys))
      newChildren == IF fullChild.IsLeaf THEN <<>>
                     ELSE SubSeq(fullChild.Children, mid + 2,
                                 Len(fullChild.Children))
      b2 == [b1 EXCEPT
               !.Nodes[newID].Parent = parentID,
               !.Nodes[newID].Keys = newKeys,
               !.Nodes[newID].Children = newChildren,
               !.Nodes[fullID].Keys = SubSeq(fullChild.Keys, 1, mid),
               !.Nodes[fullID].Children =
                  IF fullChild.IsLeaf THEN fullChild.Children
                  ELSE SubSeq(fullChild.Children, 1, mid + 1)]
      b3 == [b2 EXCEPT !.Nodes = Reparent(b2.Nodes, newChildren, newID)]
  IN  [b3 EXCEPT
         !.Nodes[parentID].Keys =
            InsertAt(b3.Nodes[parentID].Keys, childIndex, medianKey),
         !.Nodes[parentID].Children =
            InsertAt(b3.Nodes[parentID].Children, childIndex + 1, newID)]

\* insertNonFull(nodeID, key)
RECURSIVE insertNonFull(_, _, _)
insertNonFull(bt, nodeID, key) ==
  LET node == bt.Nodes[nodeID]
      i == ScanDown(node.Keys, key)
  IN  IF node.IsLeaf
        THEN [bt EXCEPT !.Nodes[nodeID].Keys = InsertAt(node.Keys, i, key)]
        ELSE
          LET full == Len(bt.Nodes[node.Children[i + 1]].Keys) = bt.Order - 1
              b1 == IF full THEN splitChild(bt, nodeID, i) ELSE bt
              i1 == IF full /\ key > b1.Nodes[nodeID].Keys[i + 1]
                      THEN i + 1 ELSE i
          IN  insertNonFull(b1, b1.Nodes[nodeID].Children[i1 + 1], key)

\* Insert(key)
Insert(bt, key) ==
  IF bt.RootID = NoNode
    THEN LET b1 == createNode(bt, TRUE)
         IN  [b1 EXCEPT !.Nodes[b1.nodeSeq].Keys = <<key>>,
                        !.RootID = b1.nodeSeq]
  ELSE IF Len(bt.Nodes[bt.RootID].Keys) = bt.Order - 1
    THEN LET b1 == createNode(bt, FALSE)
             newRoot == b1.nodeSeq
             b2 == [b1 EXCEPT !.Nodes[newRoot].Children = <<bt.RootID>>,
                              !.Nodes[bt.RootID].Parent = newRoot,
                              !.RootID = newRoot]
         IN  insertNonFull(splitChild(b2, newRoot, 0), newRoot, key)
  ELSE insertNonFull(bt, bt.RootID, key)

\* searchNode(nodeID, key): (nodeID, keyIndex, found)
RECURSIVE searchNode(_, _, _)
searchNode(bt, nodeID, key) ==
  IF nodeID \notin DOMAIN bt.Nodes
    THEN [nodeID |-> NoNode, keyIndex |-> -1, found |-> FALSE]
    ELSE
      LET node == bt.Nodes[nodeID]
          i == ScanUp(node.Keys, key)
      IN  IF i < Len(node.Keys) /\ key = node.Keys[i + 1]
            THEN [nodeID |-> nodeID, keyIndex |-> i, found |-> TRUE]
          ELSE IF node.IsLeaf
            THEN [nodeID |-> nodeID, keyIndex |-> i, found |-> FALSE]
          ELSE searchNode(bt, node.Children[i + 1], key)

\* Search(key)
Search(bt, key) ==
  IF bt.RootID = NoNode
    THEN [nodeID |-> NoNode, keyIndex |-> -1, found |-> FALSE]
    ELSE searchNode(bt, bt.RootID, key)

\* A part of Delete hands back the tree and whether it panicked (an index
\* out of range); a panic ends the process.
Ran(bt) == [bt |-> bt, panic |-> FALSE]
Panicked(bt) == [bt |-> bt, panic |-> TRUE]

\* getPredecessor(nodeID): the last key of the rightmost leaf below
RECURSIVE getPredecessor(_, _)
getPredecessor(bt, nodeID) ==
  LET node == bt.Nodes[nodeID]
  IN  IF node.IsLeaf
        THEN IF Len(node.Keys) = 0 THEN [key |-> 0, panic |-> TRUE]
             ELSE [key |-> node.Keys[Len(node.Keys)], panic |-> FALSE]
      ELSE IF Len(node.Children) = 0 THEN [key |-> 0, panic |-> TRUE]
      ELSE getPredecessor(bt, node.Children[Len(node.Children)])

\* getSuccessor(nodeID): the first key of the leftmost leaf below
RECURSIVE getSuccessor(_, _)
getSuccessor(bt, nodeID) ==
  LET node == bt.Nodes[nodeID]
  IN  IF node.IsLeaf
        THEN IF Len(node.Keys) = 0 THEN [key |-> 0, panic |-> TRUE]
             ELSE [key |-> node.Keys[1], panic |-> FALSE]
      ELSE IF Len(node.Children) = 0 THEN [key |-> 0, panic |-> TRUE]
      ELSE getSuccessor(bt, node.Children[1])

\* borrowFromLeft(parentID, childIndex)
borrowFromLeft(bt, parentID, childIndex) ==
  LET parent == bt.Nodes[parentID]
      childID == parent.Children[childIndex + 1]
      leftID == parent.Children[childIndex]
      child == bt.Nodes[childID]
      leftSibling == bt.Nodes[leftID]
  IN  IF childIndex > Len(parent.Keys) \/ Len(leftSibling.Keys) = 0
        THEN Panicked(bt)
      ELSE
        LET b1 == [bt EXCEPT
                     !.Nodes[childID].Keys =
                        InsertAt(child.Keys, 0, parent.Keys[childIndex]),
                     !.Nodes[parentID].Keys[childIndex] =
                        leftSibling.Keys[Len(leftSibling.Keys)],
                     !.Nodes[leftID].Keys =
                        SubSeq(leftSibling.Keys, 1, Len(leftSibling.Keys) - 1)]
        IN  IF leftSibling.IsLeaf THEN Ran(b1)
            ELSE IF Len(leftSibling.Children) = 0 THEN Panicked(b1)
            ELSE
              LET movedChildID ==
                    leftSibling.Children[Len(leftSibling.Children)]
              IN  Ran([b1 EXCEPT
                         !.Nodes[leftID].Children =
                            SubSeq(leftSibling.Children, 1,
                                   Len(leftSibling.Children) - 1),
                         !.Nodes[childID].Children =
                            InsertAt(child.Children, 0, movedChildID),
                         !.Nodes[movedChildID].Parent = childID])

\* borrowFromRight(parentID, childIndex)
borrowFromRight(bt, parentID, childIndex) ==
  LET parent == bt.Nodes[parentID]
      childID == parent.Children[childIndex + 1]
      rightID == parent.Children[childIndex + 2]
      child == bt.Nodes[childID]
      rightSibling == bt.Nodes[rightID]
  IN  IF childIndex + 1 > Len(parent.Keys) \/ Len(rightSibling.Keys) = 0
        THEN Panicked(bt)
      ELSE
        LET b1 == [bt EXCEPT
                     !.Nodes[childID].Keys =
                        Append(child.Keys, parent.Keys[childIndex + 1]),
                     !.Nodes[parentID].Keys[childIndex + 1] =
                        rightSibling.Keys[1],
                     !.Nodes[rightID].Keys = Tail(rightSibling.Keys)]
        IN  IF rightSibling.IsLeaf THEN Ran(b1)
            ELSE IF Len(rightSibling.Children) = 0 THEN Panicked(b1)
            ELSE
              LET movedChildID == rightSibling.Children[1]
              IN  Ran([b1 EXCEPT
                         !.Nodes[rightID].Children =
                            Tail(rightSibling.Children),
                         !.Nodes[childID].Children =
                            Append(child.Children, movedChildID),
                         !.Nodes[movedChildID].Parent = childID])

\* mergeChildren(parentID, leftIndex)
mergeChildren(bt, parentID, leftIndex) ==
  LET parent == bt.Nodes[parentID]
  IN  IF leftIndex + 2 > Len(parent.Children)
           \/ leftIndex + 1 > Len(parent.Keys)
        THEN Panicked(bt)
      ELSE
        LET leftID == parent.Children[leftIndex + 1]
            rightID == parent.Children[leftIndex + 2]
            leftChild == bt.Nodes[leftID]
            rightChild == bt.Nodes[rightID]
            b1 == [bt EXCEPT
                     !.Nodes[leftID].Keys =
                        Append(leftChild.Keys, parent.Keys[leftIndex + 1])
                          \o rightChild.Keys]
            b2 == IF leftChild.IsLeaf THEN b1
                  ELSE [b1 EXCEPT
                          !.Nodes = Reparent(b1.Nodes, rightChild.Children,
                                             leftID),
                          !.Nodes[leftID].Children =
                             leftChild.Children \o rightChild.Children]
            b3 == [b2 EXCEPT
                     !.Nodes[parentID].Keys = RemoveAt(parent.Keys, leftIndex),
                     !.Nodes[parentID].Children =
                        RemoveAt(parent.Children, leftIndex + 1)]
        IN  Ran([b3 EXCEPT
                   !.Nodes = [id \in DOMAIN b3.Nodes \ {rightID} |->
                                b3.Nodes[id]]])

\* fillChild(parentID, childIndex)
fillChild(bt, parentID, childIndex) ==
  LET parent == bt.Nodes[parentID]
      minKeys == (bt.Order - 1) \div 2
  IN  IF childIndex > 0
           /\ Len(bt.Nodes[parent.Children[childIndex]].Keys) > minKeys
        THEN borrowFromLeft(bt, parentID, childIndex)
      ELSE IF childIndex < Len(parent.Children) - 1
           /\ Len(bt.Nodes[parent.Children[childIndex + 2]].Keys) > minKeys
        THEN borrowFromRight(bt, parentID, childIndex)
      ELSE IF childIndex > 0
        THEN mergeChildren(bt, parentID, childIndex - 1)
      ELSE mergeChildren(bt, parentID, childIndex)

\* what deleteFromNode hands back when it panics
DeletePanicked(bt) == [bt |-> bt, deleted |-> FALSE, panic |-> TRUE]

\* deleteFromNode(nodeID, key)
RECURSIVE deleteFromNode(_, _, _)
RECURSIVE deleteBelow(_, _, _, _)
RECURSIVE deleteMerged(_, _, _, _)
deleteFromNode(bt, nodeID, key) ==
  LET node == bt.Nodes[nodeID]
      minKeys == (bt.Order - 1) \div 2
      i == ScanUp(node.Keys, key)
      here == i < Len(node.Keys) /\ node.Keys[i + 1] = key
  IN  IF node.IsLeaf
        THEN IF here
               THEN [bt |-> [bt EXCEPT !.Nodes[nodeID].Keys =
                                          RemoveAt(node.Keys, i)],
                     deleted |-> TRUE, panic |-> FALSE]
               ELSE [bt |-> bt, deleted |-> FALSE, panic |-> FALSE]
      ELSE IF here
        THEN
          IF i + 2 > Len(node.Children) THEN DeletePanicked(bt)
          ELSE IF Len(bt.Nodes[node.Children[i + 1]].Keys) > minKeys
            THEN LET pred == getPredecessor(bt, node.Children[i + 1])
                 IN  IF pred.panic THEN DeletePanicked(bt)
                     ELSE deleteFromNode(
                            [bt EXCEPT !.Nodes[nodeID].Keys[i + 1] = pred.key],
                            node.Children[i + 1], pred.key)
          ELSE IF Len(bt.Nodes[node.Children[i + 2]].Keys) > minKeys
            THEN LET succ == getSuccessor(bt, node.Children[i + 2])
                 IN  IF succ.panic THEN DeletePanicked(bt)
                     ELSE deleteFromNode(
                            [bt EXCEPT !.Nodes[nodeID].Keys[i + 1] = succ.key],
                            node.Children[i + 2], succ.key)
          ELSE deleteMerged(mergeChildren(bt, nodeID, i), nodeID, i, key)
      ELSE IF i + 1 > Len(node.Children) THEN DeletePanicked(bt)
      ELSE deleteBelow(IF Len(bt.Nodes[node.Children[i + 1]].Keys) = minKeys
                         THEN fillChild(bt, nodeID, i) ELSE Ran(bt),
                       nodeID, i, key)

\* deleteFromNode after it has merged the children around the key: m is
\* what mergeChildren handed back
deleteMerged(m, nodeID, i, key) ==
  IF m.panic THEN DeletePanicked(m.bt)
  ELSE deleteFromNode(m.bt, m.bt.Nodes[nodeID].Children[i + 1], key)

\* the end of deleteFromNode: f is what fillChild handed back (or the tree
\* as it was); the descent goes into Children[i-1] only when i is now
\* beyond the node's keys
deleteBelow(f, nodeID, i, key) ==
  IF f.panic THEN DeletePanicked(f.bt)
  ELSE IF i > Len(f.bt.Nodes[nodeID].Keys)
    THEN IF i > Len(f.bt.Nodes[nodeID].Children)
           THEN DeletePanicked(f.bt)
           ELSE deleteFromNode(f.bt, f.bt.Nodes[nodeID].Children[i], key)
  ELSE IF i + 1 > Len(f.bt.Nodes[nodeID].Children)
    THEN DeletePanicked(f.bt)
  ELSE deleteFromNode(f.bt, f.bt.Nodes[nodeID].Children[i + 1], key)

\* the end of Delete: d is what deleteFromNode handed back; a root left
\* without keys that is not a leaf gives way to its first child
collapseRoot(d) ==
  IF d.panic THEN d
  ELSE IF Len(d.bt.Nodes[d.bt.RootID].Keys) = 0
          /\ ~d.bt.Nodes[d.bt.RootID].IsLeaf
    THEN
      IF Len(d.bt.Nodes[d.bt.RootID].Children) = 0 THEN DeletePanicked(d.bt)
      ELSE
        [bt |-> [d.bt EXCEPT
                   !.RootID = d.bt.Nodes[d.bt.RootID].Children[1],
                   !.Nodes =
                      [id \in DOMAIN d.bt.Nodes \ {d.bt.RootID} |->
                         IF id = d.bt.Nodes[d.bt.RootID].Children[1]
                           THEN [d.bt.Nodes[id] EXCEPT !.Parent = NoNode]
                           ELSE d.bt.Nodes[id]]],
         deleted |-> d.deleted, panic |-> FALSE]
  ELSE d

\* Delete(key): the tree, the returned flag and whether it panicked
Delete(bt, key) ==
  IF bt.RootID = NoNode
    THEN [bt |-> bt, deleted |-> FALSE, panic |-> FALSE]
    ELSE collapseRoot(deleteFromNode(bt, bt.RootID, key))

\* ------------------------------------------------------------ B-Tree producer
\* projects/btree/simulation: a BTreeSimulation is
\* [tree, steps, currentStep, operation, operand, searchPath].
\* A step's title is [text, arg]; its description is [text, key, keys, n]
\* (the text and the values formatted into it); a highlight is [Type, ID],
\* where the ID of a key highlight is the key and the ID "new-root" is 0.
Title(text, arg) == [text |-> text, arg |-> arg]
Descr(text, key, keys, n) == [text |-> text, key |-> key, keys |-> keys, n |-> n]
Highlight(type, id) == [Type |-> type, ID |-> id]

\* NewBTreeSimulation: an order 4 tree, no steps
NewBTreeSimulation ==
  [tree |-> NewBTree(4), steps |-> <<>>, currentStep |-> -1,
   operation |-> "", operand |-> 0, searchPath |-> <<>>]

\* the tree after inserting keys[from..] one after the other
RECURSIVE InsertAll(_, _, _)
InsertAll(bt, keys, from) ==
  IF from > Len(keys) THEN bt
  ELSE InsertAll(Insert(bt, keys[from]), keys, from + 1)

\* BTreeSimulation.Initialize(config): a new tree of the configured order,
\* filled with the configured keys; no step is generated
BTreeInitialize(s, order, initialKeys) ==
  [s EXCEPT !.tree = InsertAll(NewBTree(order), initialKeys, 1),
            !.steps = <<>>, !.currentStep = -1]

\* BTreeSimulation.Reset()
BTreeReset(s) ==
  [s EXCEPT !.tree = NewBTree(s.tree.Order), !.steps = <<>>,
            !.currentStep = -1, !.searchPath = <<>>]

\* cloneTreeData(tree): a deep copy of the tree's rendering data
cloneTreeData(tree, path) ==
  [nodes |-> tree.Nodes, rootId |-> tree.RootID, order |-> tree.Order,
   path |-> path]

\* BTreeSimulation.GetVisualizationData(): the rendering data of the
\* simulation's own tree as it is now
BTreeGetVisualizationData(s) ==
  [nodes |-> s.tree.Nodes, rootId |-> s.tree.RootID, order |-> s.tree.Order,
   path |-> s.searchPath]

\* addStep(title, description, highlights, _): the rendering data handed in
\* is not stored
addStep(steps, title, description, highlights, data) ==
  Append(steps, [Index |-> Len(steps), Title |-> title,
                 Description |-> description, Highlights |-> highlights])

\* BTreeSimulation.ExecuteStep(index)
BTreeExecuteStep(s, index) ==
  IF index < 0 \/ index >= Len(s.steps)
    THEN [sim |-> s,
          result |-> [Success |-> FALSE, Error |-> ErrInvalidStepIndex,
                      Highlights |-> <<>>, Data |-> cloneTreeData(NewBTree(0), <<>>),
                      Description |-> Descr("", 0, <<>>, 0)]]
    ELSE [sim |-> [s EXCEPT !.currentStep = index],
          result |-> [Success |-> TRUE, Error |-> NoErr,
                      Highlights |-> s.steps[index + 1].Highlights,
                      Data |-> BTreeGetVisualizationData(s),
                      Description |-> s.steps[index + 1].Description]]

\* findInsertionPath(tree, key), from nodeID down
RECURSIVE PathFrom(_, _, _)
PathFrom(tree, nodeID, key) ==
  LET node == tree.Nodes[nodeID]
  IN  IF node.IsLeaf THEN <<nodeID>>
      ELSE <<nodeID>>
             \o PathFrom(tree, node.Children[ScanUp(node.Keys, key) + 1], key)

findInsertionPath(tree, key) ==
  IF tree.RootID = NoNode THEN <<>> ELSE PathFrom(tree, tree.RootID, key)

\* the steps of PrepareInsert's loop over path[from..]
RECURSIVE TraverseSteps(_, _, _, _, _)
TraverseSteps(steps, tree, path, key, from) ==
  IF from > Len(path) THEN steps
  ELSE
    LET nodeID == path[from]
        node == tree.Nodes[nodeID]
        s1 == addStep(steps, Title("Traverse to", nodeID),
                      Descr("Examining node", key, node.Keys, 0),
                      <<Highlight("node", nodeID)>>, cloneTreeData(tree, <<>>))
        s2 == IF from = Len(path) /\ node.IsLeaf
                THEN IF Len(node.Keys) < tree.Order - 1
                       THEN addStep(s1, Title("Insert Key", 0),
                                    Descr("Leaf node has space", key, <<>>, 0),
                                    <<Highlight("node", nodeID),
                                      Highlight("key", key)>>,
                                    cloneTreeData(tree, <<>>))
                       ELSE addStep(s1, Title("Node Full", 0),
                                    Descr("Leaf node is full", 0, <<>>,
                                          Len(node.Keys)),
                                    <<Highlight("node", nodeID)>>,
                                    cloneTreeData(tree, <<>>))
                ELSE s1
    IN  TraverseSteps(s2, tree, path, key, from + 1)

\* every id in the map after the mutation, old or new
NodeIdsAfter(before, after) == DOMAIN after.Nodes

\* the ids in the map after the mutation that were not in it before
NewNodeIds(before, after) == DOMAIN after.Nodes \ DOMAIN before.Nodes

\* the orders in which a range over a Go map may visit the ids of S
Orderings(S) ==
  {f \in [1..Cardinality(S) -> S] : \A i, j \in 1..Cardinality(S) :
                                      f[i] = f[j] => i = j}

\* PrepareInsert(key); visit is the order in which the range over
\* treeCopy.Nodes comes upon the new nodes
PrepareInsert(s, key, visit) ==
  LET treeCopy == s.tree
      after == Insert(treeCopy, key)
      s0 == addStep(<<>>, Title("Insert", key),
                    Descr("Starting insertion", key, <<>>, 0), <<>>,
                    cloneTreeData(treeCopy, <<>>))
      steps ==
        IF treeCopy.RootID = NoNode
          THEN
            LET s1 == addStep(s0, Title("Create Root", 0),
                              Descr("Tree is empty", key, <<>>, 0),
                              <<Highlight("node", 0)>>,
                              cloneTreeData(treeCopy, <<>>))
            IN  addStep(s1, Title("Insertion Complete", 0),
                        Descr("Key inserted as root", key, <<>>, 0),
                        <<Highlight("node", after.RootID)>>,
                        cloneTreeData(after, <<>>))
          ELSE
            LET s1 == TraverseSteps(s0, treeCopy,
                                    findInsertionPath(treeCopy, key), key, 1)
                s2 == IF Len(visit) > 0
                        THEN addStep(s1, Title("Split Occurred", 0),
                                     Descr("Node split required", 0, <<>>,
                                           Len(visit)),
                                     [j \in 1..Len(visit) |->
                                        Highlight("node", visit[j])],
                                     cloneTreeData(after, <<>>))
                        ELSE s1
            IN  addStep(s2, Title("Insertion Complete", 0),
                        Descr("Key successfully inserted", key, <<>>, 0),
                        <<Highlight("key", key)>>, cloneTreeData(after, <<>>))
  IN  [s EXCEPT !.operation = "insert", !.operand = key, !.steps = steps,
                !.currentStep = -1, !.searchPath = <<>>,
                !.tree = Insert(s.tree, key)]

\* the end of PrepareDelete: d is what Delete handed back on the tree (the
\* clone and the simulation's own tree are equal, and so is what Delete does
\* to them), steps are the steps so far
finishDelete(s, steps, d, key) ==
  IF d.panic THEN [sim |-> s, deleted |-> FALSE, panic |-> TRUE]
  ELSE [sim |-> [s EXCEPT
                   !.operation = "delete", !.operand = key,
                   !.currentStep = -1, !.searchPath = <<>>,
                   !.steps =
                      addStep(steps, Title("Deletion Complete", 0),
                              Descr("Key successfully deleted", key, <<>>, 0),
                              <<>>, cloneTreeData(d.bt, <<>>)),
                   !.tree = d.bt],
        deleted |-> d.deleted, panic |-> FALSE]

\* the steps of PrepareDelete for a key that Search found: hit is what
\* Search handed back
foundSteps(tree, hit, key) ==
  addStep(
    addStep(
      addStep(<<>>, Title("Delete", key),
              Descr("Starting deletion", key, <<>>, 0), <<>>,
              cloneTreeData(tree, <<>>)),
      Title("Key Found", 0),
      Descr("Found key at node", key, <<hit.nodeID>>, hit.keyIndex),
      <<Highlight("key", key)>>, cloneTreeData(tree, <<>>)),
    IF tree.Nodes[hit.nodeID].IsLeaf
      THEN Title("Delete from Leaf", 0) ELSE Title("Delete from Internal", 0),
    IF tree.Nodes[hit.nodeID].IsLeaf
      THEN Descr("Key is in a leaf node", key, <<>>, 0)
      ELSE Descr("Key is in an internal node", key, <<>>, 0),
    <<Highlight("node", hit.nodeID)>>, cloneTreeData(tree, <<>>))

\* PrepareDelete after the search: hit is what Search handed back
deleteFound(s, hit, key) ==
  IF ~hit.found
    THEN [sim |-> [s EXCEPT
                     !.operation = "delete", !.operand = key,
                     !.currentStep = -1, !.searchPath = <<>>,
                     !.steps =
                        addStep(
                          addStep(<<>>, Title("Delete", key),
                                  Descr("Starting deletion", key, <<>>, 0),
                                  <<>>, cloneTreeData(s.tree, <<>>)),
                          Title("Key Not Found", 0),
                          Descr("Key does not exist", key, <<>>, 0),
                          <<>>, cloneTreeData(s.tree, <<>>))],
          deleted |-> FALSE, panic |-> FALSE]
    ELSE finishDelete(s, foundSteps(s.tree, hit, key), Delete(s.tree, key),
                      key)

\* PrepareDelete(key): the simulation, what Delete returned (FALSE when it
\* was not called) and whether it panicked
PrepareDelete(s, key) == deleteFound(s, Search(s.tree, key), key)

\* ------------------------------------------------------------ MVCC store
\* projects/mvcc/internal: an MVCCStore is [Transactions, Versions, Rows,
\* GlobalTimestamp, ActiveTransaction, txSeq, verSeq].  Transaction and
\* version ids are numbers ("tx-2" is 2, "ver-3" is 3); the id "" and a nil
\* pointer are 0.  The three maps are functions on the ids present.  A
\* version's payload takes no part in any decision and is left out.
TxActive == "active"
TxCommitted == "committed"
TxAborted == "aborted"

\* the errors of the store (their text without the id formatted into it)
ErrTxNotFound == "transaction not found"
ErrTxNotActive == "transaction is not active"
ErrRowNotFound == "row not found"
ErrNoVisibleVersion == "no visible version for row"

\* the clock of a new store
FirstTimestamp == 1

\* an empty map
NoEntries == [id \in {} |-> 0]

\* NewMVCCStore
NewMVCCStore ==
  [Transactions |-> NoEntries, Versions |-> NoEntries, Rows |-> NoEntries,
   GlobalTimestamp |-> FirstTimestamp, ActiveTransaction |-> 0, txSeq |-> 0,
   verSeq |-> 0]

\* what an operation of the store hands back: the store, its error, the
\* version or the ids it returns, and whether it panicked
Outcome(s, err, ver, removed, panic) ==
  [store |-> s, err |-> err, ver |-> ver, removed |-> removed, panic |-> panic]

\* BeginTransaction(): the new transaction's id is the new txSeq
BeginTransaction(s) ==
  LET txID == s.txSeq + 1
  IN  Outcome([s EXCEPT
                 !.txSeq = txID,
                 !.Transactions =
                    (txID :> [StartTime |-> s.GlobalTimestamp, CommitTime |-> 0,
                              Status |-> TxActive, ReadSet |-> <<>>,
                              WriteSet |-> <<>>]) @@ s.Transactions,
                 !.ActiveTransaction = txID],
              NoErr, 0, <<>>, FALSE)

\* isVisible that takes a creator committed at the start time of tx for one
\* committed after it
isVisibleStrictlyBefore(s, txID, verID) ==
  LET tx == s.Transactions[txID]
      ver == s.Versions[verID]
      creatorTx == s.Transactions[ver.CreatedBy]
  IN  IF ver.CreatedBy = txID THEN TRUE
      ELSE IF creatorTx.Status # TxCommitted THEN FALSE
      ELSE IF creatorTx.CommitTime = 0 \/ creatorTx.CommitTime >= tx.StartTime
        THEN FALSE
      ELSE IF ver.DeletedBy # 0 /\ ver.DeletedAt # 0
              /\ s.Transactions[ver.DeletedBy].Status = TxCommitted
              /\ s.Transactions[ver.DeletedBy].CommitTime <= tx.StartTime
        THEN FALSE
      ELSE TRUE

\* isVisible that does not ask whether the creator has committed
isVisibleAnyCreator(s, txID, verID) ==
  LET tx == s.Transactions[txID]
      ver == s.Versions[verID]
      creatorTx == s.Transactions[ver.CreatedBy]
  IN  IF ver.CreatedBy = txID THEN TRUE
      ELSE IF creatorTx.CommitTime # 0 /\ creatorTx.CommitTime > tx.StartTime
        THEN FALSE
      ELSE IF ver.DeletedBy # 0 /\ ver.DeletedAt # 0
              /\ s.Transactions[ver.DeletedBy].Status = TxCommitted
              /\ s.Transactions[ver.DeletedBy].CommitTime <= tx.StartTime
        THEN FALSE
      ELSE TRUE

\* isVisible(tx, ver)
isVisible(s, txID, verID) ==
  LET tx == s.Transactions[txID]
      ver == s.Versions[verID]
      creatorTx == s.Transactions[ver.CreatedBy]
  IN  IF ver.CreatedBy = txID THEN TRUE
      ELSE IF creatorTx.Status # TxCommitted THEN FALSE
      ELSE IF creatorTx.CommitTime = 0 \/ creatorTx.CommitTime > tx.StartTime
        THEN FALSE
      ELSE IF ver.DeletedBy # 0 /\ ver.DeletedAt # 0
              /\ s.Transactions[ver.DeletedBy].Status = TxCommitted
              /\ s.Transactions[ver.DeletedBy].CommitTime <= tx.StartTime
        THEN FALSE
      ELSE TRUE

\* the first version of chain[from..] visible to txID, or 0
RECURSIVE FirstVisible(_, _, _, _)
FirstVisible(s, txID, chain, from) ==
  IF from > Len(chain) THEN 0
  ELSE IF isVisible(s, txID, chain[from]) THEN chain[from]
  ELSE FirstVisible(s, txID, chain, from + 1)

\* Read(txID, rowID)
Read(s, txID, rowID) ==
  IF txID \notin DOMAIN s.Transactions
    THEN Outcome(s, ErrTxNotFound, 0, <<>>, FALSE)
  ELSE IF s.Transactions[txID].Status # TxActive
    THEN Outcome(s, ErrTxNotActive, 0, <<>>, FALSE)
  ELSE IF rowID \notin DOMAIN s.Rows
    THEN Outcome(s, ErrRowNotFound, 0, <<>>, FALSE)
  ELSE
    LET ver == FirstVisible(s, txID, s.Rows[rowID].VersionChain, 1)
    IN  IF ver = 0 THEN Outcome(s, ErrNoVisibleVersion, 0, <<>>, FALSE)
        ELSE Outcome([s EXCEPT !.Transactions[txID].ReadSet =
                                  Append(@, rowID)],
                     NoErr, ver, <<>>, FALSE)

\* Write(txID, rowID, data): the new version's id is the new verSeq
Write(s, txID, rowID) ==
  IF txID \notin DOMAIN s.Transactions
    THEN Outcome(s, ErrTxNotFound, 0, <<>>, FALSE)
  ELSE IF s.Transactions[txID].Status # TxActive
    THEN Outcome(s, ErrTxNotActive, 0, <<>>, FALSE)
  ELSE
    LET verID == s.verSeq + 1
        chain == IF rowID \in DOMAIN s.Rows THEN s.Rows[rowID].VersionChain
                                            ELSE <<>>
        version == [RowID |-> rowID, CreatedBy |-> txID,
                    CreatedAt |-> s.GlobalTimestamp, DeletedBy |-> 0,
                    DeletedAt |-> 0,
                    Prev |-> IF Len(chain) > 0 THEN chain[1] ELSE 0]
    IN  Outcome([s EXCEPT
                   !.verSeq = verID,
                   !.Versions = (verID :> version) @@ s.Versions,
                   !.Rows = (rowID :> [CurrentVersion |-> verID,
                                       VersionChain |-> <<verID>> \o chain])
                            @@ s.Rows,
                   !.Transactions[txID].WriteSet = Append(@, rowID)],
                NoErr, verID, <<>>, FALSE)

\* Delete(txID, rowID): stamps the head of the row's chain
StoreDelete(s, txID, rowID) ==
  IF txID \notin DOMAIN s.Transactions
    THEN Outcome(s, ErrTxNotFound, 0, <<>>, FALSE)
  ELSE IF s.Transactions[txID].Status # TxActive
    THEN Outcome(s, ErrTxNotActive, 0, <<>>, FALSE)
  ELSE IF rowID \notin DOMAIN s.Rows
    THEN Outcome(s, ErrRowNotFound, 0, <<>>, FALSE)
  ELSE
    LET chain == s.Rows[rowID].VersionChain
        s1 == IF Len(chain) > 0
                THEN [s EXCEPT !.Versions[chain[1]].DeletedBy = txID,
                               !.Versions[chain[1]].DeletedAt =
                                  s.GlobalTimestamp]
                ELSE s
    IN  IF Len(chain) > 0 /\ chain[1] \notin DOMAIN s.Versions
          THEN Outcome(s, NoErr, 0, <<>>, TRUE)
          ELSE Outcome([s1 EXCEPT !.Transactions[txID].WriteSet =
                                     Append(@, rowID)],
                       NoErr, 0, <<>>, FALSE)

\* Commit(txID)
Commit(s, txID) ==
  IF txID \notin DOMAIN s.Transactions
    THEN Outcome(s, ErrTxNotFound, 0, <<>>, FALSE)
  ELSE IF s.Transactions[txID].Status # TxActive
    THEN Outcome(s, ErrTxNotActive, 0, <<>>, FALSE)
  ELSE
    Outcome([s EXCEPT
               !.GlobalTimestamp = s.GlobalTimestamp + 1,
               !.Transactions[txID].CommitTime = s.GlobalTimestamp + 1,
               !.Transactions[txID].Status = TxCommitted,
               !.ActiveTransaction =
                  IF s.ActiveTransaction = txID THEN 0
                                                ELSE s.ActiveTransaction],
            NoErr, 0, <<>>, FALSE)

\* the versions of chain that txID did not create, in order
RECURSIVE NotCreatedBy(_, _, _, _)
NotCreatedBy(s, txID, chain, from) ==
  IF from > Len(chain) THEN <<>>
  ELSE IF s.Versions[chain[from]].CreatedBy # txID
    THEN <<chain[from]>> \o NotCreatedBy(s, txID, chain, from + 1)
  ELSE NotCreatedBy(s, txID, chain, from + 1)

\* the ids of a sequence
Ids(seq) == {seq[j] : j \in 1..Len(seq)}

\* Abort's loop over tx.WriteSet[from..]: a row named twice in the write
\* set, or dropped by another abort, is a nil *Row the second time
RECURSIVE AbortRows(_, _, _, _)
AbortRows(s, txID, writeSet, from) ==
  IF from > Len(writeSet) THEN [store |-> s, panic |-> FALSE]
  ELSE
    LET rowID == writeSet[from]
    IN  IF rowID \notin DOMAIN s.Rows THEN [store |-> s, panic |-> TRUE]
        ELSE
          LET chain == s.Rows[rowID].VersionChain
              newChain == NotCreatedBy(s, txID, chain, 1)
              versions == [v \in DOMAIN s.Versions
                                   \ (Ids(chain) \ Ids(newChain)) |->
                             s.Versions[v]]
              rows == IF Len(newChain) > 0
                        THEN [s.Rows EXCEPT
                                ![rowID] = [CurrentVersion |-> newChain[1],
                                            VersionChain |-> newChain]]
                        ELSE [r \in DOMAIN s.Rows \ {rowID} |-> s.Rows[r]]
          IN  AbortRows([s EXCEPT !.Versions = versions, !.Rows = rows],
                        txID, writeSet, from + 1)

\* Abort(txID)
Abort(s, txID) ==
  IF txID \notin DOMAIN s.Transactions
    THEN Outcome(s, ErrTxNotFound, 0, <<>>, FALSE)
  ELSE IF s.Transactions[txID].Status # TxActive
    THEN Outcome(s, ErrTxNotActive, 0, <<>>, FALSE)
  ELSE
    LET s1 == [s EXCEPT !.Transactions[txID].Status = TxAborted]
        a == AbortRows(s1, txID, s.Transactions[txID].WriteSet, 1)
    IN  IF a.panic THEN Outcome(a.store, NoErr, 0, <<>>, TRUE)
        ELSE Outcome([a.store EXCEPT
                        !.ActiveTransaction =
                           IF s.ActiveTransaction = txID
                             THEN 0 ELSE s.ActiveTransaction],
                     NoErr, 0, <<>>, FALSE)

\* the smallest start time of an active transaction, or the clock
OldestActiveStart(s) ==
  LET starts == {s.Transactions[t].StartTime :
                   t \in {u \in DOMAIN s.Transactions :
                            s.Transactions[u].Status = TxActive}}
                \cup {s.GlobalTimestamp}
  IN  CHOOSE a \in starts : \A b \in starts : a <= b

\* GarbageCollect's scan of chain[from..]: the versions kept and removed
RECURSIVE ScanChain(_, _, _, _, _)
ScanChain(s, chain, from, foundVisible, oldest) ==
  IF from > Len(chain) THEN [keep |-> <<>>, removed |-> <<>>]
  ELSE
    LET verID == chain[from]
        creatorTx == s.Transactions[s.Versions[verID].CreatedBy]
        committed == creatorTx.Status = TxCommitted /\ creatorTx.CommitTime # 0
        drop == committed /\ creatorTx.CommitTime < oldest /\ foundVisible
        rest == ScanChain(s, chain, from + 1, foundVisible \/ committed, oldest)
    IN  IF drop THEN [keep |-> rest.keep, removed |-> <<verID>> \o rest.removed]
        ELSE [keep |-> <<verID>> \o rest.keep, removed |-> rest.removed]

\* GarbageCollect's loop over the rows visit[from..]
RECURSIVE CollectRows(_, _, _, _)
CollectRows(s, visit, from, oldest) ==
  IF from > Len(visit) THEN [store |-> s, removed |-> <<>>]
  ELSE
    LET rowID == visit[from]
        scan == ScanChain(s, s.Rows[rowID].VersionChain, 1, FALSE, oldest)
        s1 == [s EXCEPT
                 !.Versions = [v \in DOMAIN s.Versions \ Ids(scan.removed) |->
                                 s.Versions[v]],
                 !.Rows[rowID].VersionChain = scan.keep]
        rest == CollectRows(s1, visit, from + 1, oldest)
    IN  [store |-> rest.store, removed |-> scan.removed \o rest.removed]

\* GarbageCollect(); visit is the order in which the range over s.Rows
\* comes upon the rows
GarbageCollect(s, visit) ==
  LET c == CollectRows(s, visit, 1, OldestActiveStart(s))
  IN  Outcome(c.store, NoErr, 0, c.removed, FALSE)

\* ------------------------------------------------------------ MVCC producer
\* projects/mvcc/simulation: an MVCCSimulation is its store, held apart, and
\* [steps, currentStep, operation].  A step is [Index, Title, Description,
\* Highlights]; a description is the text of its format.
ColorVisible == "#10b981"
ColorHidden == "#ef4444"
ColorActing == "#f59e0b"
ColorReading == "#3b82f6"
ColorPrevious == "#94a3b8"

\* a protocol.Highlight with its colour
Mark(type, id, color) == [Type |-> type, ID |-> id, Color |-> color]

\* NewMVCCSimulation
NewMVCCSimulation == [steps |-> <<>>, currentStep |-> -1, operation |-> ""]

\* MVCCSimulation.addStep(title, description, highlights)
traceStep(steps, title, description, highlights) ==
  Append(steps, [Index |-> Len(steps), Title |-> title,
                 Description |-> description, Highlights |-> highlights])

\* what a Prepare method leaves behind: the store, the simulation's other
\* fields, and whether it panicked
Prepared(s, operation, steps, panic) ==
  [store |-> s,
   sim |-> [steps |-> steps, currentStep |-> -1, operation |-> operation],
   panic |-> panic]

\* the error step of a Prepare method
ErrorStep(description) == traceStep(<<>>, Title("Error", 0), description, <<>>)

\* PrepareBeginTransaction()
PrepareBeginTransaction(s) ==
  LET txID == s.txSeq + 1
      begun == traceStep(<<>>, Title("Begin Transaction", 0),
                         "Starting new transaction", <<>>)
  IN  Prepared(BeginTransaction(s).store, "begin",
               traceStep(begun, Title("Transaction Started", 0),
                         "Created transaction",
                         <<Mark("row", txID, ColorVisible)>>),
               FALSE)

\* the verdict of PrepareRead's loop body on one version: visible, the
\* reason given, and whether formatting the reason dereferences a nil
\* commit time
ReadVerdict(s, txID, verID) ==
  LET tx == s.Transactions[txID]
      ver == s.Versions[verID]
      creatorTx == s.Transactions[ver.CreatedBy]
  IN  IF ver.CreatedBy = txID
        THEN [visible |-> TRUE, reason |-> "Created by current transaction",
              panic |-> FALSE]
      ELSE IF creatorTx.Status # TxCommitted
        THEN [visible |-> FALSE, reason |-> "Creator transaction not committed",
              panic |-> FALSE]
      ELSE IF creatorTx.CommitTime = 0 \/ creatorTx.CommitTime > tx.StartTime
        THEN [visible |-> FALSE, reason |-> "Committed after our snapshot",
              panic |-> creatorTx.CommitTime = 0]
      ELSE [visible |-> TRUE, reason |-> "Committed before our snapshot",
            panic |-> FALSE]

\* the steps of one version of PrepareRead's loop, given its verdict
VerdictSteps(steps, verID, verdict) ==
  LET checked == traceStep(steps, Title("Check", verID), verdict.reason,
                           <<Mark("cell", verID,
                                  IF verdict.visible THEN ColorVisible
                                                     ELSE ColorHidden)>>)
  IN  IF verdict.visible
        THEN traceStep(checked, Title("Version Found", verID),
                       "Reading version",
                       <<Mark("cell", verID, ColorVisible)>>)
        ELSE checked

\* PrepareRead's walk through chain[from..]
RECURSIVE WalkChain(_, _, _, _, _), WalkOn(_, _, _, _, _, _)
WalkChain(s, txID, chain, from, steps) ==
  IF from > Len(chain) THEN [steps |-> steps, panic |-> FALSE]
  ELSE WalkOn(s, txID, chain, from, steps, ReadVerdict(s, txID, chain[from]))

\* the walk past chain[from], given its verdict
WalkOn(s, txID, chain, from, steps, verdict) ==
  IF verdict.panic THEN [steps |-> steps, panic |-> TRUE]
  ELSE IF verdict.visible
    THEN [steps |-> VerdictSteps(steps, chain[from], verdict), panic |-> FALSE]
  ELSE WalkChain(s, txID, chain, from + 1,
                 VerdictSteps(steps, chain[from], verdict))

\* PrepareRead, given the outcome of its walk: the store's Read is applied
\* last
readWalked(s, txID, rowID, walk) ==
  IF walk.panic THEN Prepared(s, "read", walk.steps, TRUE)
  ELSE Prepared(Read(s, txID, rowID).store, "read", walk.steps, FALSE)

\* PrepareRead(txID, rowID)
PrepareRead(s, txID, rowID) ==
  IF txID \notin DOMAIN s.Transactions
    THEN Prepared(s, "read", ErrorStep("Transaction not found"), FALSE)
  ELSE IF rowID \notin DOMAIN s.Rows
    THEN Prepared(s, "read", ErrorStep("Row not found"), FALSE)
  ELSE
    readWalked(s, txID, rowID,
               WalkChain(s, txID, s.Rows[rowID].VersionChain, 1,
                         traceStep(<<>>, Title("Read", rowID),
                                   "Transaction reading row at snapshot time",
                                   <<Mark("row", txID, ColorReading)>>)))

\* PrepareWrite, given what the store's Write returned: ver.ID of a nil
\* version panics
writeApplied(steps, w) ==
  IF w.ver = 0 THEN Prepared(w.store, "write", steps, TRUE)
  ELSE Prepared(w.store, "write",
                traceStep(steps, Title("Version Created", w.ver),
                          "Created version",
                          <<Mark("cell", w.ver, ColorVisible)>>),
                FALSE)

\* PrepareWrite(txID, rowID, data)
PrepareWrite(s, txID, rowID) ==
  IF txID \notin DOMAIN s.Transactions
    THEN Prepared(s, "write", ErrorStep("Transaction not found"), FALSE)
  ELSE
    LET writing == traceStep(<<>>, Title("Write to", rowID),
                             "Transaction writing to row",
                             <<Mark("row", txID, ColorActing)>>)
    IN  writeApplied(
          IF rowID \notin DOMAIN s.Rows
            THEN traceStep(writing, Title("Create Row", 0),
                           "Row doesn't exist, creating new row", <<>>)
            ELSE traceStep(writing, Title("Create Version", 0),
                           "Adding new version to row's version chain",
                           <<Mark("row", s.Rows[rowID].CurrentVersion,
                                  ColorPrevious)>>),
          Write(s, txID, rowID))

\* PrepareCommit's loop over tx.WriteSet[from..]
RECURSIVE FinalizeSteps(_, _, _, _)
FinalizeSteps(s, writeSet, from, steps) ==
  IF from > Len(writeSet) THEN steps
  ELSE
    LET rowID == writeSet[from]
    IN  FinalizeSteps(s, writeSet, from + 1,
          IF rowID \in DOMAIN s.Rows /\ Len(s.Rows[rowID].VersionChain) > 0
            THEN traceStep(steps, Title("Finalize", rowID),
                           "Version for row will now be visible",
                           <<Mark("cell", s.Rows[rowID].VersionChain[1],
                                  ColorVisible)>>)
            ELSE steps)

\* PrepareCommit, given the store after the store's Commit: *tx.CommitTime
\* of a transaction without a commit time panics
commitApplied(steps, txID, s) ==
  IF s.Transactions[txID].CommitTime = 0
    THEN Prepared(s, "commit", steps, TRUE)
    ELSE Prepared(s, "commit",
                  traceStep(steps, Title("Commit Complete", 0),
                            "Transaction committed at timestamp",
                            <<Mark("row", txID, ColorVisible)>>),
                  FALSE)

\* PrepareCommit(txID)
PrepareCommit(s, txID) ==
  IF txID \notin DOMAIN s.Transactions
    THEN Prepared(s, "commit", ErrorStep("Transaction not found"), FALSE)
  ELSE
    commitApplied(
      FinalizeSteps(s, s.Transactions[txID].WriteSet, 1,
                    traceStep(<<>>, Title("Commit", txID),
                              "Committing transaction",
                              <<Mark("row", txID, ColorActing)>>)),
      txID, Commit(s, txID).store)

\* PrepareAbort's inner loop over chain[from..]
RECURSIVE RemoveSteps(_, _, _, _, _)
RemoveSteps(s, txID, chain, from, steps) ==
  IF from > Len(chain) THEN steps
  ELSE RemoveSteps(s, txID, chain, from + 1,
         IF s.Versions[chain[from]].CreatedBy = txID
           THEN traceStep(steps, Title("Remove", chain[from]),
                          "Removing uncommitted version",
                          <<Mark("cell", chain[from], ColorHidden)>>)
           ELSE steps)

\* PrepareAbort's loop over tx.WriteSet[from..]
RECURSIVE RollbackSteps(_, _, _, _, _)
RollbackSteps(s, txID, writeSet, from, steps) ==
  IF from > Len(writeSet) THEN steps
  ELSE RollbackSteps(s, txID, writeSet, from + 1,
         IF writeSet[from] \in DOMAIN s.Rows
           THEN RemoveSteps(s, txID, s.Rows[writeSet[from]].VersionChain, 1,
                            steps)
           ELSE steps)

\* PrepareAbort, given what the store's Abort returned
abortApplied(steps, txID, a) ==
  IF a.panic THEN Prepared(a.store, "abort", steps, TRUE)
  ELSE Prepared(a.store, "abort",
                traceStep(steps, Title("Abort Complete", 0),
                          "Transaction aborted, all changes rolled back",
                          <<Mark("row", txID, ColorHidden)>>),
                FALSE)

\* PrepareAbort(txID)
PrepareAbort(s, txID) ==
  IF txID \notin DOMAIN s.Transactions
    THEN Prepared(s, "abort", ErrorStep("Transaction not found"), FALSE)
  ELSE
    abortApplied(
      RollbackSteps(s, txID, s.Transactions[txID].WriteSet, 1,
                    traceStep(<<>>, Title("Abort", txID),
                              "Aborting transaction",
                              <<Mark("row", txID, ColorHidden)>>)),
      txID, Abort(s, txID))

\* PrepareGarbageCollect's loop over removed[from..]
RECURSIVE CollectedSteps(_, _, _)
CollectedSteps(removed, from, steps) ==
  IF from > Len(removed) THEN steps
  ELSE CollectedSteps(removed, from + 1,
         traceStep(steps, Title("Remove", removed[from]),
                   "Removed old version",
                   <<Mark("cell", removed[from], ColorHidden)>>))

\* PrepareGarbageCollect, given what the store's GarbageCollect returned
collectApplied(steps, g) ==
  Prepared(g.store, "gc",
           traceStep(CollectedSteps(g.removed, 1, steps),
                     Title("GC Complete", Len(g.removed)),
                     "Garbage collection complete", <<>>),
           FALSE)

\* PrepareGarbageCollect(); visit is the order in which the store's range
\* over its rows comes upon them
PrepareGarbageCollect(s, visit) ==
  collectApplied(
    traceStep(traceStep(<<>>, Title("Garbage Collection", 0),
                        "Starting garbage collection", <<>>),
              Title("Find Threshold", OldestActiveStart(s)),
              "Oldest active transaction started at", <<>>),
    GarbageCollect(s, visit))

\* ------------------------------------------------------------ query lexer
\* projects/query-parser/internal: the input is a sequence of characters
\* (input[i] of the source is input[i + 1] here); a token is [Type, Value,
\* Position], its value a sequence of characters
Token(type, value, start, end) ==
  [Type |-> type, Value |-> value, Position |-> [Start |-> start, End |-> end]]

\* the letters, in both cases
LowerCase == <<"a", "b", "c", "d", "e", "f", "g", "h", "i", "j", "k", "l", "m", "n", "o", "p", "q", "r", "s", "t", "u", "v", "w", "x", "y", "z">>
UpperCase == <<"A", "B", "C", "D", "E", "F", "G", "H", "I", "J", "K", "L", "M", "N", "O", "P", "Q", "R", "S", "T", "U", "V", "W", "X", "Y", "Z">>
Letters == {LowerCase[k] : k \in 1..26} \cup {UpperCase[k] : k \in 1..26}
Digits == {"0", "1", "2", "3", "4", "5", "6", "7", "8", "9"}
Spaces == {" ", "\t", "\n", "\r"}

\* strings.ToUpper
UpperOf(ch) ==
  IF \E k \in 1..26 : LowerCase[k] = ch
    THEN UpperCase[CHOOSE k \in 1..26 : LowerCase[k] = ch]
    ELSE ch
ToUpper(value) == [j \in 1..Len(value) |-> UpperOf(value[j])]

\* Keywords
Keywords ==
  (<<"S", "E", "L", "E", "C", "T">> :> "SELECT")
  @@ (<<"F", "R", "O", "M">> :> "FROM")
  @@ (<<"W", "H", "E", "R", "E">> :> "WHERE")
  @@ (<<"A", "N", "D">> :> "AND")
  @@ (<<"O", "R">> :> "OR")
  @@ (<<"N", "O", "T">> :> "NOT")
  @@ (<<"I", "N", "S", "E", "R", "T">> :> "INSERT")
  @@ (<<"I", "N", "T", "O">> :> "INTO")
  @@ (<<"V", "A", "L", "U", "E", "S">> :> "VALUES")
  @@ (<<"U", "P", "D", "A", "T", "E">> :> "UPDATE")
  @@ (<<"S", "E", "T">> :> "SET")
  @@ (<<"D", "E", "L", "E", "T", "E">> :> "DELETE")
  @@ (<<"C", "R", "E", "A", "T", "E">> :> "CREATE")
  @@ (<<"T", "A", "B", "L", "E">> :> "TABLE")
  @@ (<<"J", "O", "I", "N">> :> "JOIN")
  @@ (<<"O", "N">> :> "ON")
  @@ (<<"A", "S">> :> "AS")
  @@ (<<"O", "R", "D", "E", "R">> :> "ORDER BY")
  @@ (<<"G", "R", "O", "U", "P">> :> "GROUP BY")
  @@ (<<"B", "Y">> :> "IDENTIFIER")
  @@ (<<"L", "I", "M", "I", "T">> :> "LIMIT")
  @@ (<<"O", "F", "F", "S", "E", "T">> :> "OFFSET")

\* input[start:end]
Slice(input, start, end) == SubSeq(input, start + 1, end)

\* the first position from pos on whose character is not in class
RECURSIVE ScanWhile(_, _, _)
ScanWhile(input, pos, class) ==
  IF pos < Len(input) /\ input[pos + 1] \in class
    THEN ScanWhile(input, pos + 1, class)
    ELSE pos

\* Lexer.skipWhitespace
skipWhitespace(input, pos) == ScanWhile(input, pos, Spaces)

\* what a read of the lexer hands back: the token and the new l.pos
Lexed(token, pos) == [token |-> token, pos |-> pos]

\* Lexer.readOperator(start)
readOperator(input, start) ==
  LET ch == input[start + 1]
  IN  IF /\ start + 1 < Len(input)
         /\ <<ch, input[start + 2]>>
              \in {<<"<", "=">>, <<">", "=">>, <<"!", "=">>, <<"<", ">">>}
        THEN Lexed(Token("OPERATOR", <<ch, input[start + 2]>>, start, start + 2),
                   start + 2)
        ELSE Lexed(Token("OPERATOR", <<ch>>, start, start + 1), start + 1)

\* readString's loop: the position of the closing quote, or past the input
RECURSIVE StringEnd(_, _, _)
StringEnd(input, pos, quote) ==
  IF pos < Len(input) /\ input[pos + 1] # quote
    THEN IF input[pos + 1] = "\\" /\ pos + 1 < Len(input)
           THEN StringEnd(input, pos + 2, quote)
           ELSE StringEnd(input, pos + 1, quote)
    ELSE pos

\* readString, given where its loop ended
stringUpTo(input, start, end) ==
  IF end >= Len(input)
    THEN Lexed(Token("ERROR", <<"unterminated string">>, start, end), end)
    ELSE Lexed(Token("STRING", Slice(input, start + 1, end), start, end + 1),
               end + 1)

\* Lexer.readString(start, quote)
readString(input, start, quote) ==
  stringUpTo(input, start, StringEnd(input, start + 1, quote))

\* Lexer.readNumber(start)
readNumber(input, start) ==
  LET end == ScanWhile(input, start, Digits \cup {"."})
  IN  Lexed(Token("NUMBER", Slice(input, start, end), start, end), end)

\* readIdentifier, given where its loop ended
identifierUpTo(input, start, end, upper) ==
  IF upper \in DOMAIN Keywords
    THEN Lexed(Token(Keywords[upper], upper, start, end), end)
    ELSE Lexed(Token("IDENTIFIER", Slice(input, start, end), start, end), end)

\* Lexer.readIdentifier(start)
readIdentifier(input, start) ==
  LET end == ScanWhile(input, start, Letters \cup Digits \cup {"_"})
  IN  identifierUpTo(input, start, end, ToUpper(Slice(input, start, end)))

\* the single character tokens
Punctuation ==
  ("," :> "COMMA") @@ ("*" :> "STAR") @@ ("(" :> "LPAREN")
  @@ (")" :> "RPAREN") @@ (";" :> "SEMICOLON")

\* Lexer.nextToken
nextToken(input, pos) ==
  LET ch == input[pos + 1]
  IN  IF ch \in DOMAIN Punctuation
        THEN Lexed(Token(Punctuation[ch], <<ch>>, pos, pos + 1), pos + 1)
      ELSE IF ch \in {"=", "<", ">", "!"} THEN readOperator(input, pos)
      ELSE IF ch \in {"'", "\""} THEN readString(input, pos, ch)
      ELSE IF ch \in Digits THEN readNumber(input, pos)
      ELSE IF ch \in Letters \cup {"_"} THEN readIdentifier(input, pos)
      ELSE Lexed(Token("ERROR", <<ch>>, pos, pos + 1), pos + 1)

\* ------------------------------------------------------------ query parser
\* projects/query-parser/internal: a Parser is [tokens, pos, nodes, nodeSeq,
\* rootID, errors, panic].  Node ids are numbers ("ast-2" is 2), a nil node
\* and the id "" are 0; a node is [Type, Value, Children, Parent].  Meta,
\* which no decision reads, is left out.  A nil pointer dereference sets
\* panic, after which the parser does nothing more.
NewParser(tokens) ==
  [tokens |-> tokens, pos |-> 0, nodes |-> NoEntries, nodeSeq |-> 0,
   rootID |-> 0, errors |-> <<>>, panic |-> FALSE]

\* what a parse method hands back: the parser and the node (0: nil)
Parsed(p, node) == [p |-> p, node |-> node]

\* Parser.current(); nothing is read after a panic
current(p) ==
  IF p.panic THEN Token("", <<>>, 0, 0)
  ELSE IF p.pos >= Len(p.tokens) THEN Token("EOF", <<>>, 0, 0)
  ELSE p.tokens[p.pos + 1]

\* Parser.advance(): the parser afterwards (the token is current(p))
advance(p) == IF p.panic THEN p ELSE [p EXCEPT !.pos = @ + 1]

\* p.errors = append(p.errors, ...)
recordError(p, text, wanted, got) ==
  IF p.panic THEN p
  ELSE [p EXCEPT !.errors = Append(@, [text |-> text, wanted |-> wanted,
                                       got |-> got])]

\* Parser.expect(tokenType)
expect(p, tokenType) ==
  IF current(p).Type # tokenType
    THEN [p |-> recordError(p, "expected but got", tokenType, current(p).Type),
          token |-> current(p), ok |-> FALSE]
    ELSE [p |-> advance(p), token |-> current(p), ok |-> TRUE]

\* Parser.createNode(nodeType, value)
createASTNode(p, nodeType, value) ==
  IF p.panic THEN Parsed(p, 0)
  ELSE Parsed([p EXCEPT
                 !.nodeSeq = @ + 1,
                 !.nodes = (p.nodeSeq + 1 :>
                              [Type |-> nodeType, Value |-> value,
                               Children |-> <<>>, Parent |-> 0]) @@ p.nodes],
              p.nodeSeq + 1)

\* Parser.addChild(parent, child): child.ID of a nil child panics
addChild(p, parent, child) ==
  IF p.panic THEN p
  ELSE IF child = 0 \/ parent = 0 THEN [p EXCEPT !.panic = TRUE]
  ELSE [p EXCEPT !.nodes[parent].Children = Append(@, child),
                 !.nodes[child].Parent = parent]

\* if r.node != nil { p.addChild(parent, r.node) }; hands back parent
attach(parent, r) ==
  Parsed(IF r.node # 0 THEN addChild(r.p, parent, r.node) ELSE r.p, parent)

\* the binary node c over left and right: left is added as it is, right if
\* it is not nil
binaryNode(left, right, c) ==
  Parsed(IF right # 0
           THEN addChild(addChild(c.p, c.node, left), c.node, right)
           ELSE addChild(c.p, c.node, left),
         c.node)

\* the binary expression value over left and the parsed right operand
binaryExpr(value, left, r) ==
  binaryNode(left, r.node, createASTNode(r.p, "BINARY_EXPR", value))

RECURSIVE parseExpression(_), parseOrExpression(_), orLoop(_),
          parseAndExpression(_), andLoop(_), parseComparisonExpression(_),
          comparisonFrom(_), parsePrimaryExpression(_)

\* p.expect(TokenRParen); return expr
closeParen(r) == Parsed(expect(r.p, "RPAREN").p, r.node)

\* Parser.parsePrimaryExpression()
parsePrimaryExpression(p) ==
  LET token == current(p)
  IN  IF token.Type = "IDENTIFIER"
        THEN createASTNode(advance(p), "IDENTIFIER", token.Value)
      ELSE IF token.Type \in {"NUMBER", "STRING"}
        THEN createASTNode(advance(p), "LITERAL", token.Value)
      ELSE IF token.Type = "LPAREN"
        THEN closeParen(parseExpression(advance(p)))
      ELSE Parsed(recordError(p, "unexpected token in expression", "",
                              token.Type), 0)

\* parseComparisonExpression after its left operand
comparisonFrom(left) ==
  IF current(left.p).Type = "OPERATOR"
    THEN binaryExpr(current(left.p).Value, left.node,
                    parsePrimaryExpression(advance(left.p)))
    ELSE left

\* Parser.parseComparisonExpression()
parseComparisonExpression(p) == comparisonFrom(parsePrimaryExpression(p))

\* parseAndExpression's loop
andLoop(left) ==
  IF current(left.p).Type = "AND"
    THEN andLoop(binaryExpr(<<"A", "N", "D">>, left.node,
                            parseComparisonExpression(advance(left.p))))
    ELSE left

\* Parser.parseAndExpression()
parseAndExpression(p) == andLoop(parseComparisonExpression(p))

\* parseOrExpression's loop
orLoop(left) ==
  IF current(left.p).Type = "OR"
    THEN orLoop(binaryExpr(<<"O", "R">>, left.node,
                           parseAndExpression(advance(left.p))))
    ELSE left

\* Parser.parseOrExpression()
parseOrExpression(p) == orLoop(parseAndExpression(p))

\* Parser.parseExpression()
parseExpression(p) == parseOrExpression(p)

\* parseWhere after its node is made
whereOf(c) == attach(c.node, parseExpression(advance(c.p)))

\* Parser.parseWhere()
parseWhere(p) == whereOf(createASTNode(p, "WHERE", <<>>))

\* the alias after "AS": p.advance() and p.expect(TokenIdentifier)
aliasAfterAs(p) == expect(advance(p), "IDENTIFIER").p

\* parseColumnExpression after its node is made
columnOf(c) ==
  Parsed(IF current(c.p).Type = "AS" THEN aliasAfterAs(c.p) ELSE c.p, c.node)

\* Parser.parseColumnExpression()
parseColumnExpression(p) ==
  columnOf(createASTNode(advance(p), "COLUMN", current(p).Value))

\* parseColumns' loop on the node columns
RECURSIVE columnsLoop(_, _), columnsNext(_, _, _), columnsComma(_, _)
columnsLoop(p, columns) ==
  IF current(p).Type = "STAR"
    THEN columnsNext(attach(columns,
                            createASTNode(p, "COLUMN", <<"*">>)).p,
                     columns, TRUE)
  ELSE IF current(p).Type = "IDENTIFIER"
    THEN columnsNext(attach(columns, parseColumnExpression(p)).p, columns,
                     FALSE)
  ELSE Parsed(p, columns)

\* the end of one round of parseColumns' loop: the star is consumed after
\* its node is added, then a comma goes on with the loop
columnsNext(p, columns, star) ==
  columnsComma(IF star THEN advance(p) ELSE p, columns)

columnsComma(p, columns) ==
  IF current(p).Type # "COMMA" THEN Parsed(p, columns)
  ELSE columnsLoop(advance(p), columns)

\* parseColumns after its node is made
columnsOf(c) == columnsLoop(c.p, c.node)

\* Parser.parseColumns()
parseColumns(p) == columnsOf(createASTNode(p, "COLUMNS", <<>>))

\* parseJoin after the table name: the ON condition
joinOn(p, join) ==
  IF current(p).Type = "ON"
    THEN attach(join, parseExpression(advance(p)))
    ELSE Parsed(p, join)

\* parseJoin after p.expect(TokenIdentifier)
joinTable(x, join) ==
  IF x.ok
    THEN joinOn(attach(join, createASTNode(x.p, "TABLE", x.token.Value)).p,
                join)
    ELSE joinOn(x.p, join)

\* parseJoin after its node is made
joinOf(c) == joinTable(expect(advance(c.p), "IDENTIFIER"), c.node)

\* Parser.parseJoin()
parseJoin(p) == joinOf(createASTNode(p, "JOIN", <<>>))

\* parseFrom's loop over the joins
RECURSIVE joinsLoop(_, _)
joinsLoop(p, from) ==
  IF current(p).Type = "JOIN"
    THEN joinsLoop(attach(from, parseJoin(p)).p, from)
    ELSE Parsed(p, from)

\* parseFrom after the table node is added: the alias
tableAlias(p) ==
  IF current(p).Type = "AS" THEN aliasAfterAs(p)
  ELSE IF current(p).Type = "IDENTIFIER" THEN advance(p)
  ELSE p

\* parseFrom after p.expect(TokenIdentifier)
fromTable(x, from) ==
  IF x.ok
    THEN joinsLoop(
           tableAlias(attach(from,
                             createASTNode(x.p, "TABLE", x.token.Value)).p),
           from)
    ELSE joinsLoop(x.p, from)

\* parseFrom after its node is made
fromOf(c) == fromTable(expect(advance(c.p), "IDENTIFIER"), c.node)

\* Parser.parseFrom()
parseFrom(p) == fromOf(createASTNode(p, "FROM", <<>>))

\* parseOrderBy after the column node is added: ASC or DESC
direction(p) ==
  IF /\ current(p).Type = "IDENTIFIER"
     /\ current(p).Value \in {<<"A", "S", "C">>, <<"D", "E", "S", "C">>}
    THEN advance(p)
    ELSE p

\* parseOrderBy after BY: the column
orderColumn(p, order) ==
  IF current(p).Type = "IDENTIFIER"
    THEN Parsed(direction(attach(order,
                                 createASTNode(advance(p), "COLUMN",
                                               current(p).Value)).p),
                order)
    ELSE Parsed(p, order)

\* parseOrderBy after ORDER is consumed: BY, if present
orderBy(p, order) ==
  IF current(p).Type = "IDENTIFIER" /\ current(p).Value = <<"B", "Y">>
    THEN orderColumn(advance(p), order)
    ELSE orderColumn(p, order)

\* parseOrderBy after its node is made
orderOf(c) == orderBy(advance(c.p), c.node)

\* Parser.parseOrderBy()
parseOrderBy(p) == orderOf(createASTNode(p, "ORDER_BY", <<>>))

\* parseLimit after the count: OFFSET and its number
limitOffset(p) ==
  IF current(p).Type = "OFFSET"
    THEN IF current(advance(p)).Type = "NUMBER" THEN advance(advance(p))
                                                 ELSE advance(p)
    ELSE p

\* parseLimit after LIMIT is consumed: the count becomes the node's value
limitCount(p, limit) ==
  IF current(p).Type = "NUMBER"
    THEN Parsed(limitOffset(advance([p EXCEPT !.nodes[limit].Value =
                                                 current(p).Value])),
                limit)
    ELSE Parsed(limitOffset(p), limit)

\* parseLimit after its node is made
limitOf(c) == limitCount(advance(c.p), c.node)

\* Parser.parseLimit()
parseLimit(p) == limitOf(createASTNode(p, "LIMIT", <<>>))

\* one optional clause of parseSelect on the statement node
clause(r, type) ==
  IF current(r.p).Type # type THEN r
  ELSE IF type = "FROM" THEN attach(r.node, parseFrom(r.p))
  ELSE IF type = "WHERE" THEN attach(r.node, parseWhere(r.p))
  ELSE IF type = "ORDER BY" THEN attach(r.node, parseOrderBy(r.p))
  ELSE attach(r.node, parseLimit(r.p))

\* parseSelect that looks for WHERE before FROM
selectWhereFirst(c) ==
  clause(clause(clause(clause(attach(c.node, parseColumns(advance(c.p))),
                              "WHERE"),
                       "FROM"),
                "ORDER BY"),
         "LIMIT")

\* parseSelect after its node is made
selectOf(c) ==
  clause(clause(clause(clause(attach(c.node, parseColumns(advance(c.p))),
                              "FROM"),
                       "WHERE"),
                "ORDER BY"),
         "LIMIT")

\* Parser.parseSelect()
parseSelect(p) ==
  selectOf(createASTNode(p, "STATEMENT", <<"S", "E", "L", "E", "C", "T">>))

\* Parser.parseStatement()
parseStatement(p) ==
  IF current(p).Type = "SELECT" THEN parseSelect(p)
  ELSE Parsed(recordError(p, "unexpected token", "", current(p).Type), 0)

\* Parse after parseStatement: the parser, the root and the error
parseOf(r) ==
  IF r.node = 0
    THEN [p |-> r.p, root |-> 0,
          err |-> IF Len(r.p.errors) > 0 THEN "parse errors"
                                         ELSE "failed to parse statement"]
    ELSE [p |-> [r.p EXCEPT !.rootID = r.node], root |-> r.node, err |-> NoErr]

\* Parser.Parse()
Parse(p) ==
  IF Len(p.tokens) = 0 THEN [p |-> p, root |-> 0, err |-> "no tokens to parse"]
  ELSE parseOf(parseStatement(p))

\* ------------------------------------------------------------ query producer
\* projects/query-parser/simulation: a ParserSimulation is [query, tokens,
\* astNodes, astRoot, steps, currentStep, currentTokenIndex, parsePhase]
NewParserSimulation ==
  [query |-> <<>>, tokens |-> <<>>, astNodes |-> NoEntries, astRoot |-> 0,
   steps |-> <<>>, currentStep |-> -1, currentTokenIndex |-> 0,
   parsePhase |-> "idle"]

\* ParserSimulation.addStep(title, description, highlights)
parserStep(steps, title, description, highlights) ==
  Append(steps, [Index |-> Len(steps), Title |-> title,
                 Description |-> description, Highlights |-> highlights])

\* the tokenization loop of prepareParseSimulation from l.pos = pos on
RECURSIVE tokenizeFrom(_, _, _, _), tokenFound(_, _, _, _)
tokenizeFrom(input, pos, tokens, steps) ==
  IF skipWhitespace(input, pos) >= Len(input)
    THEN [tokens |-> tokens, steps |-> steps]
    ELSE tokenFound(input, tokens, steps,
                    nextToken(input, skipWhitespace(input, pos)))

\* one round of the loop, given what TokenizeStep returned
tokenFound(input, tokens, steps, lexed) ==
  tokenizeFrom(input, lexed.pos, Append(tokens, lexed.token),
               parserStep(steps, Title("Token", lexed.token.Type),
                          "Found token",
                          <<Mark("token", Len(tokens), "#3b82f6")>>))

\* generateASTSteps(node), and its loop over children[from..]
RECURSIVE generateASTSteps(_, _, _), childrenSteps(_, _, _, _)
generateASTSteps(nodes, node, steps) ==
  IF node = 0 THEN steps
  ELSE childrenSteps(nodes, nodes[node].Children, 1,
                     parserStep(steps, Title("AST", nodes[node].Type),
                                "Created node",
                                <<Mark("node", node, "#8b5cf6")>>))

childrenSteps(nodes, children, from, steps) ==
  IF from > Len(children) THEN steps
  ELSE childrenSteps(nodes, children, from + 1,
                     IF children[from] \in DOMAIN nodes
                       THEN generateASTSteps(nodes, children[from], steps)
                       ELSE steps)

\* what prepareParseSimulation leaves behind, and whether it panicked
Simulated(s, panic) == [sim |-> s, panic |-> panic]

\* prepareParseSimulation after parser.Parse()
parsedOf(s, parse) ==
  IF parse.p.panic THEN Simulated(s, TRUE)
  ELSE IF parse.err # NoErr
    THEN Simulated([s EXCEPT
                      !.steps = parserStep(@, Title("Parse Error", 0),
                                           parse.err, <<>>),
                      !.parsePhase = "error"],
                   FALSE)
  ELSE Simulated([s EXCEPT
                    !.astNodes = parse.p.nodes,
                    !.astRoot = parse.p.rootID,
                    !.steps =
                       parserStep(
                         generateASTSteps(parse.p.nodes, parse.root, @),
                         Title("Parsing Complete", 0),
                         "Successfully created AST",
                         <<Mark("node", parse.p.rootID, ColorVisible)>>),
                    !.parsePhase = "complete"],
                 FALSE)

\* prepareParseSimulation after the tokenization loop: the EOF token, the
\* two steps between the phases, and the parse
tokenized(s, query, lex) ==
  parsedOf([s EXCEPT
              !.query = query,
              !.tokens = Append(lex.tokens,
                                Token("EOF", <<>>, Len(query), Len(query))),
              !.steps =
                 parserStep(parserStep(lex.steps,
                                       Title("Tokenization Complete", 0),
                                       "Created tokens from input", <<>>),
                            Title("Parsing", 0),
                            "Building Abstract Syntax Tree (AST) from tokens",
                            <<>>),
              !.parsePhase = "parsing"],
           Parse(NewParser(Append(lex.tokens,
                                  Token("EOF", <<>>, Len(query), Len(query))))))

\* ParserSimulation.prepareParseSimulation(query)
prepareParseSimulation(s, query) ==
  tokenized(s, query,
            tokenizeFrom(query, 0, s.tokens,
                         parserStep(parserStep(<<>>, Title("Start Parsing", 0),
                                               "Parsing SQL query", <<>>),
                                    Title("Tokenization", 0),
                                    "Breaking input into tokens", <<>>)))

\* ParserSimulation.Reset()
ParserReset(s) ==
  [s EXCEPT !.tokens = <<>>, !.astNodes = NoEntries, !.astRoot = 0,
            !.steps = <<>>, !.currentStep = -1, !.currentTokenIndex = -1,
            !.parsePhase = "idle"]

\* ParserSimulation.Initialize(config), query being config["query"]
ParserInitialize(s, query) ==
  IF query # <<>> THEN prepareParseSimulation(ParserReset(s), query)
  ELSE Simulated(ParserReset(s), FALSE)

\* ------------------------------------------------------------ what ran last
\* the last B-Tree operation: its name, its key, what Delete returned,
\* whether it panicked
NoTreeOp == [op |-> "", key |-> 0, deleted |-> FALSE, panic |-> FALSE]

\* the last store operation: its name, its transaction and row, what it
\* handed back
NoStoreOp ==
  [op |-> "", tx |-> 0, row |-> 0, err |-> NoErr, ver |-> 0, removed |-> <<>>,
   panic |-> FALSE]

\* ------------------------------------------------------------ state
VARIABLES
  e,        \* the Engine struct
  sim,      \* the producer behind e.simulation
  closed,   \* the stop channels that have been closed
  tickers,  \* per playLoop goroutine: its time.Ticker ("none" before it is made)
  tasks,    \* per playLoop goroutine: where it is, the channel its select
            \* waits on and the interval of its ticker
  out,      \* the event emitted by the last Engine method call
  last,     \* the last Engine method call: name, argument, caller (0: the
            \* client, t: goroutine t) and returned error
  polled,   \* the full-state payloads sent for getState requests since the
            \* last control request
  bsim,     \* a BTreeSimulation (the B-Tree producer)
  bdone,    \* the last operation on bsim
  store,    \* an MVCCStore (the store of the MVCC producer)
  mdone,    \* the last operation on store
  marks,    \* the delete marks placed so far, as <<version, transaction>>
  msim,     \* an MVCCSimulation (the MVCC producer) but for its store
  pquery,   \* the words of the query of the start request being written
  psim,     \* a ParserSimulation (the query producer)
  pdone,    \* the last operation on psim
  session,  \* m.sessions[clientID]: the project of the client's session
  request,  \* the last request of the client that was handled
  reply,    \* the messages the handler of that request sent itself
  mu,       \* e.mu: the goroutine inside StepForward (0: none) and the
            \* engine and producer as they were when it took the lock
  link      \* whether the client's session still holds the engine, and the
            \* goroutines that were inside a tick when it let go

\* the session's engine, its producer and its goroutines
engineVars == <<e, sim, closed, tickers, tasks, out, last, polled>>
\* the B-Tree producer
btreeVars == <<bsim, bdone>>
\* the MVCC store
mvccVars == <<store, mdone, marks>>
\* the MVCC producer's trace
traceVars == <<msim>>
\* the query producer and the query it is given
parserVars == <<pquery, psim, pdone>>
\* the session manager's view of the client
managerVars == <<session, request, reply>>
\* the engine's lock and its place in the session map
holdVars == <<mu, link>>
\* what the engine, the B-Tree producer and the store leave alone
restVars == <<traceVars, parserVars, managerVars, holdVars>>
\* what the MVCC producer leaves alone
exceptTrace == <<engineVars, btreeVars, parserVars, managerVars, holdVars>>
\* what the query producer leaves alone
exceptParser ==
  <<engineVars, btreeVars, mvccVars, traceVars, managerVars, holdVars>>

vars == <<e, sim, closed, tickers, tasks, out, last, polled, bsim, bdone,
          store, mdone, marks, msim, pquery, psim, pdone, session, request,
          reply, mu, link>>

TaskIds == 1..MaxTasks

\* no goroutine has been started, no ticker made
NoTickers == [t \in TaskIds |-> "none"]
NoTasks == [t \in TaskIds |-> [pc |-> "none", ch |-> 0, interval |-> 0]]

\* time.Duration(float64(time.Second) / e.speed), in milliseconds
Interval(speed) == (1000 * 100) \div speed

\* a goroutine that has been started and has not returned
Live(t) == tasks[t].pc \in {"start", "select", "tick", "pausing"}

Did(op, arg, by, err) == [op |-> op, arg |-> arg, by |-> by, err |-> err]

\* no getState request since the last control request
NoPoll == [calls |-> 0]

\* sendState that sends the steps with the first payload only
sendStateOnce(en, s) ==
  [State |-> GetState(en, s),
   Steps |-> IF polled = NoPoll THEN en.steps ELSE <<>>]

\* sendState: the payload of the full-state message (state and steps)
sendState(en, s) == [State |-> GetState(en, s), Steps |-> en.steps]

\* an autoplay goroutine has called the engine since the payload was sent
Ticked(p) == IF p = NoPoll THEN p ELSE [p EXCEPT !.ticked = TRUE]

\* `go e.playLoop()` of Play: reached only when Play has not returned an
\* error; the goroutine is named after the channel Play has just made
Spawn(ts, r) ==
  IF r.err = NoErr THEN [ts EXCEPT ![r.e.stopChan].pc = "start"] ELSE ts

\* the world after an operation
Apply(r) ==
  /\ e' = r.e
  /\ sim' = r.sim
  /\ closed' = r.closed
  /\ tickers' = r.tickers
  /\ out' = r.out

\* a session's engine as NewEngine leaves it
EngineInit ==
  /\ e = NewEngine
  /\ sim = NewSimulation
  /\ closed = {}
  /\ tickers = NoTickers
  /\ tasks = NoTasks
  /\ out = NoEvent
  /\ last = Did("NewEngine", 0, 0, NoErr)
  /\ polled = NoPoll

\* a B-Tree producer as NewBTreeSimulation leaves it
BTreeInit ==
  /\ bsim = NewBTreeSimulation
  /\ bdone = NoTreeOp

\* an MVCC store as NewMVCCStore leaves it
MVCCInit ==
  /\ store = NewMVCCStore
  /\ mdone = NoStoreOp
  /\ marks = {}

\* an MVCC producer as NewMVCCSimulation leaves it
TraceInit == msim = NewMVCCSimulation

\* a query producer as NewParserSimulation leaves it, no query written
ParserInit ==
  /\ pquery = <<>>
  /\ psim = NewParserSimulation
  /\ pdone = [op |-> "", panic |-> FALSE]

\* m.sessions[clientID] of a client without a session
NoSession == "nil"

\* a request of the client: its message type, the project it names ("" when
\* it names none), its numeric argument (0 when it has none) and whether its
\* payload parses
Request(kind, project, arg, valid) ==
  [kind |-> kind, project |-> project, arg |-> arg, valid |-> valid]

\* no request has been handled
NoRequest == Request("", "", 0, TRUE)

\* a manager as NewSimulationManager leaves it: no session, nothing handled
ManagerInit ==
  /\ session = NoSession
  /\ request = NoRequest
  /\ reply = <<>>

\* e.mu held by goroutine t, which found the engine as en and the producer
\* as s
Held(t, en, s) == [holder |-> t, e |-> en, sim |-> s]

\* e.mu free
Free == Held(0, NewEngine, NewSimulation)

\* the engine's place: "none" before the session is made, "session" while
\* m.sessions[clientID] holds it, "replaced" and "removed" afterwards
Linked(to, inflight) == [to |-> to, inflight |-> inflight]

\* a new engine: its lock is free and no session holds it yet
HoldInit ==
  /\ mu = Free
  /\ link = Linked("none", {})

Init ==
  /\ EngineInit /\ BTreeInit /\ MVCCInit /\ TraceInit /\ ParserInit
  /\ ManagerInit /\ HoldInit

\* ------------------------------------------------------------ client calls
\* handleStartSimulation: a new producer and a new engine are made, the
\* engine is initialized with the request's parameters and replaces the
\* session's engine.  The replaced engine, its channels and its goroutines
\* are no longer part of the session.
StartSimulation ==
  \E n \in TraceLens :
    /\ Apply(Initialize(NewEngine, NewSimulation, {}, NoTickers, n))
    /\ last' = Did("Initialize", n, 0, NoErr)
    /\ tasks' = NoTasks
    /\ polled' = NoPoll
    /\ UNCHANGED <<btreeVars, mvccVars, restVars>>

DoReset ==
  /\ Apply(Reset(e, sim, closed, tickers))
  /\ last' = Did("Reset", 0, 0, NoErr)
  /\ polled' = NoPoll
  /\ UNCHANGED <<tasks, btreeVars, mvccVars, restVars>>

DoStepForward ==
  LET r == StepForward(e, sim, closed, tickers)
  IN  /\ r.err = NoErr => Len(e.history) < MaxHistory
      /\ Apply(r)
      /\ last' = Did("StepForward", 0, 0, r.err)
      /\ polled' = NoPoll
      /\ UNCHANGED <<tasks, btreeVars, mvccVars, restVars>>

DoStepBackward ==
  LET r == StepBackward(e, sim, closed, tickers)
  IN  /\ Apply(r)
      /\ last' = Did("StepBackward", 0, 0, r.err)
      /\ polled' = NoPoll
      /\ UNCHANGED <<tasks, btreeVars, mvccVars, restVars>>

\* Play, and on success `go e.playLoop()`
DoPlay ==
  LET r == Play(e, sim, closed, tickers)
  IN  /\ r.err = NoErr => e.stopChan < MaxPlays
      /\ Apply(r)
      /\ last' = Did("Play", 0, 0, r.err)
      /\ tasks' = Spawn(tasks, r)
      /\ polled' = NoPoll
      /\ UNCHANGED <<btreeVars, mvccVars, restVars>>

DoPause ==
  /\ Apply(Pause(e, sim, closed, tickers))
  /\ last' = Did("Pause", 0, 0, NoErr)
  /\ polled' = NoPoll
  /\ UNCHANGED <<tasks, btreeVars, mvccVars, restVars>>

DoSetSpeed ==
  \E x \in SpeedInputs :
    /\ Apply(SetSpeed(e, sim, closed, tickers, x))
    /\ last' = Did("SetSpeed", x, 0, NoErr)
    /\ polled' = NoPoll
    /\ UNCHANGED <<tasks, btreeVars, mvccVars, restVars>>

\* getState with the lock dropped: handleGetState sends the payload of
\* sendState and changes nothing of the engine (Engine.GetState takes no
\* lock and assigns no field)
DoGetState ==
  /\ polled' = [calls |-> IF polled.calls < 2 THEN polled.calls + 1 ELSE 2,
                state |-> sendState(e, sim), ticked |-> FALSE]
  /\ UNCHANGED <<e, sim, closed, tickers, tasks, out, last>>
  /\ UNCHANGED <<btreeVars, mvccVars, restVars>>

\* ------------------------------------------------------------ playLoop
\* the goroutine starts: it computes the tick interval from e.speed (once,
\* here), makes its ticker, stores it in e.ticker and enters the select on
\* the current e.stopChan.  Time is not modelled: a running ticker may
\* deliver a tick at any moment.
LoopStart(t) ==
  /\ tasks[t].pc = "start"
  /\ tasks' = [tasks EXCEPT ![t] = [pc |-> "select", ch |-> e.stopChan,
                                    interval |-> Interval(e.speed)]]
  /\ tickers' = [tickers EXCEPT ![t] = "running"]
  /\ e' = [e EXCEPT !.ticker = t]
  /\ UNCHANGED <<sim, closed, out, last, polled, btreeVars, mvccVars, restVars>>

\* case <-e.stopChan: return (the deferred Stop of its own ticker runs)
LoopStop(t) ==
  /\ tasks[t].pc = "select"
  /\ tasks[t].ch \in closed
  /\ tasks' = [tasks EXCEPT ![t].pc = "done"]
  /\ tickers' = [tickers EXCEPT ![t] = "stopped"]
  /\ UNCHANGED <<e, sim, closed, out, last, polled, btreeVars, mvccVars, restVars>>

\* case <-e.ticker.C: the tick is taken; the goroutine now asks for the lock
LoopTick(t) ==
  /\ tasks[t].pc = "select"
  /\ tickers[t] = "running"
  /\ tasks' = [tasks EXCEPT ![t].pc = "tick"]
  /\ UNCHANGED <<e, sim, closed, tickers, out, last, polled, btreeVars,
                 mvccVars, restVars>>

\* e.StepForward() of the tick; on ErrNoMoreSteps the loop goes on to
\* e.Pause(), otherwise back to the select
LoopStepForward(t) ==
  LET r == StepForward(e, sim, closed, tickers)
  IN  /\ tasks[t].pc = "tick"
      /\ r.err = NoErr => Len(e.history) < MaxHistory
      /\ Apply(r)
      /\ last' = Did("StepForward", 0, t, r.err)
      /\ tasks' = IF r.err = ErrNoMoreSteps
                    THEN [tasks EXCEPT ![t].pc = "pausing"]
                    ELSE [tasks EXCEPT ![t].pc = "select",
                                       ![t].ch = r.e.stopChan]
      /\ polled' = Ticked(polled)
      /\ UNCHANGED <<btreeVars, mvccVars, restVars>>

\* e.Pause() at the end of the trace, then return
LoopPause(t) ==
  LET r == Pause(e, sim, closed, tickers)
  IN  /\ tasks[t].pc = "pausing"
      /\ e' = r.e
      /\ sim' = r.sim
      /\ closed' = r.closed
      /\ tickers' = [r.tickers EXCEPT ![t] = "stopped"]
      /\ out' = r.out
      /\ last' = Did("Pause", 0, t, NoErr)
      /\ tasks' = [tasks EXCEPT ![t].pc = "done"]
      /\ polled' = Ticked(polled)
      /\ UNCHANGED <<btreeVars, mvccVars, restVars>>

Next ==
  \/ StartSimulation
  \/ DoReset
  \/ DoStepForward
  \/ DoStepBackward
  \/ DoPlay
  \/ DoPause
  \/ DoSetSpeed
  \/ DoGetState
  \/ \E t \in TaskIds : LoopStart(t)
  \/ \E t \in TaskIds : LoopStop(t)
  \/ \E t \in TaskIds : LoopTick(t)
  \/ \E t \in TaskIds : LoopStepForward(t)
  \/ \E t \in TaskIds : LoopPause(t)

Spec == Init /\ [][Next]_vars

\* ------------------------------------------------------------ autoplay
\* Play, and on success `go e.playLoop()`, up to MaxTasks goroutines
DoPlayAgain ==
  LET r == Play(e, sim, closed, tickers)
  IN  /\ r.err = NoErr => e.stopChan < MaxTasks
      /\ Apply(r)
      /\ last' = Did("Play", 0, 0, r.err)
      /\ tasks' = Spawn(tasks, r)
      /\ polled' = NoPoll
      /\ UNCHANGED <<btreeVars, mvccVars, restVars>>

\* play, pause, reset, manual steps and the goroutines of autoplay
NextAutoplay ==
  \/ StartSimulation
  \/ DoReset
  \/ DoStepForward
  \/ DoStepBackward
  \/ DoPlayAgain
  \/ DoPause
  \/ \E t \in TaskIds : LoopStart(t)
  \/ \E t \in TaskIds : LoopStop(t)
  \/ \E t \in TaskIds : LoopTick(t)
  \/ \E t \in TaskIds : LoopStepForward(t)
  \/ \E t \in TaskIds : LoopPause(t)

SpecAutoplay == Init /\ [][NextAutoplay]_vars

\* ------------------------------------------------------------ one engine's life
\* One engine from the start request that makes it, through the requests of
\* its session, to the moment the session map lets go of it, and after.
\* StepForward of a tick is taken apart into its assignments, which run
\* under e.mu; GetState and Stop run without it.
OnSession == link.to = "session"
Unlocked == mu.holder = 0
Discarded == link.to \in {"replaced", "removed"}

\* the goroutines between taking a tick and the end of its StepForward
InTick == {t \in TaskIds : tasks[t].pc \in {"tick", "advanced", "recorded"}}

\* handleStartSimulation of a client without a session
StartSession ==
  \E n \in TraceLens :
    /\ link.to = "none"
    /\ Apply(Initialize(NewEngine, NewSimulation, {}, NoTickers, n))
    /\ last' = Did("Initialize", n, 0, NoErr)
    /\ tasks' = NoTasks
    /\ polled' = NoPoll
    /\ link' = Linked("session", {})
    /\ UNCHANGED <<mu, btreeVars, mvccVars, traceVars, parserVars,
                   managerVars>>

\* the requests of the session; Play, Pause and Reset take e.mu
SessionPlay == OnSession /\ Unlocked /\ DoPlay
SessionPause == OnSession /\ Unlocked /\ DoPause
SessionReset == OnSession /\ Unlocked /\ DoReset

\* handleGetState -> sendState -> Engine.GetState, which takes no lock
\* (Engine.GetSteps waits for it, and reads e.steps, which no tick assigns)
SessionGetState == OnSession /\ DoGetState

\* handleStartSimulation of a client that has a session: m.sessions[clientID]
\* is overwritten with a session on a new engine; no method of the engine
\* it held is called
ReplaceSession ==
  /\ OnSession
  /\ link' = Linked("replaced", InTick)
  /\ UNCHANGED <<mu, engineVars, btreeVars, mvccVars, traceVars, parserVars,
                 managerVars>>

\* RemoveSession(clientID): session.Engine.Stop(), without e.mu, then the
\* entry is deleted
RemoveSession ==
  LET st == Stop(e, closed, tickers)
  IN  /\ OnSession
      /\ e' = st.e
      /\ closed' = st.closed
      /\ tickers' = st.tickers
      /\ last' = Did("Stop", 0, 0, NoErr)
      /\ link' = Linked("removed", InTick)
      /\ UNCHANGED <<mu, sim, tasks, out, polled, btreeVars, mvccVars,
                     traceVars, parserVars, managerVars>>

\* StepForward of a tick that returns an error: no field is assigned
LoopStepRefused(t) ==
  /\ Unlocked
  /\ StepForward(e, sim, closed, tickers).err # NoErr
  /\ LoopStepForward(t)

\* StepForward of a tick, up to e.currentStep = nextStep: e.mu is taken, the
\* producer executes the step
LoopStepAdvance(t) ==
  /\ tasks[t].pc = "tick"
  /\ Unlocked
  /\ StepForward(e, sim, closed, tickers).err = NoErr
  /\ Len(e.history) < MaxHistory
  /\ mu' = Held(t, e, sim)
  /\ sim' = ExecuteStep(sim, e.currentStep + 1).sim
  /\ e' = [e EXCEPT !.currentStep = e.currentStep + 1]
  /\ tasks' = [tasks EXCEPT ![t].pc = "advanced"]
  /\ UNCHANGED <<closed, tickers, out, last, polled, link, btreeVars,
                 mvccVars, traceVars, parserVars, managerVars>>

\* e.history = append(e.history, result)
LoopStepRecord(t) ==
  /\ tasks[t].pc = "advanced"
  /\ e' = [e EXCEPT !.history =
                      Append(@, ExecuteStep(mu.sim,
                                            mu.e.currentStep + 1).result)]
  /\ tasks' = [tasks EXCEPT ![t].pc = "recorded"]
  /\ UNCHANGED <<sim, closed, tickers, out, last, polled, btreeVars,
                 mvccVars, restVars>>

\* e.mode = ModeStep, the step_forward event, and e.mu is given back; the
\* loop goes back to its select
LoopStepEnd(t) ==
  /\ tasks[t].pc = "recorded"
  /\ e' = [e EXCEPT !.mode = ModeStep]
  /\ out' = Emit("step_forward",
                 buildStepUpdate(e', sim,
                                 ExecuteStep(mu.sim,
                                             mu.e.currentStep + 1).result))
  /\ last' = Did("StepForward", 0, t, NoErr)
  /\ mu' = Free
  /\ tasks' = [tasks EXCEPT ![t].pc = "select", ![t].ch = e.stopChan]
  /\ polled' = Ticked(polled)
  /\ UNCHANGED <<sim, closed, tickers, link, btreeVars, mvccVars, traceVars,
                 parserVars, managerVars>>

\* e.Pause() at the end of the trace takes e.mu
LoopPauseLocked(t) == Unlocked /\ LoopPause(t)

NextSession ==
  \/ StartSession
  \/ SessionPlay
  \/ SessionPause
  \/ SessionReset
  \/ SessionGetState
  \/ ReplaceSession
  \/ RemoveSession
  \/ \E t \in TaskIds : LoopStart(t)
  \/ \E t \in TaskIds : LoopStop(t)
  \/ \E t \in TaskIds : LoopTick(t)
  \/ \E t \in TaskIds : LoopStepRefused(t)
  \/ \E t \in TaskIds : LoopStepAdvance(t)
  \/ \E t \in TaskIds : LoopStepRecord(t)
  \/ \E t \in TaskIds : LoopStepEnd(t)
  \/ \E t \in TaskIds : LoopPauseLocked(t)

SpecSession == Init /\ [][NextSession]_vars

\* ------------------------------------------------------------ session manager
\* SimulationManager (apps/api/internal/handlers/ws_handler.go) for one
\* client.  A handler hands its messages to sendMessage in order; reply is
\* that sequence.  The events an Engine method emits go through the
\* session's emitter to sendEvent: what the client is sent for them is
\* sendEvent(out).  The hub, its clients and their send buffers are outside
\* the manager: a message handed to sendMessage counts as sent.

\* the factories registered by main
Factories == {"btree", "mvcc", "query-parser"}

\* the projects start requests name: a registered one and one that is not
RequestedProjects == {"query-parser", "lsm-tree"}

MsgError == "error"
MsgSimulationState == "simulation_state"
MsgStepUpdate == "step_update"

\* sendError(clientID, code, message): the message handed to sendMessage
sendError(code) == [type |-> MsgError, code |-> code]

\* the full-state message of sendState
stateMessage(en, s) ==
  [type |-> MsgSimulationState, payload |-> sendState(en, s)]

\* sendEvent: step events are forwarded when their data is a
\* *protocol.StepUpdateResponse, state events when it is a
\* *protocol.SimulationState; every other event is dropped
sendEvent(o) ==
  IF o.event \in {"step_forward", "step_backward"}
    THEN IF "Step" \in DOMAIN o.payload
           THEN <<[type |-> MsgStepUpdate, payload |-> o.payload]>>
           ELSE <<>>
  ELSE IF o.event \in {"initialized", "reset", "play", "pause"}
    THEN IF "Mode" \in DOMAIN o.payload
           THEN <<[type |-> MsgSimulationState,
                   payload |-> [State |-> o.payload]]>>
           ELSE <<>>
  ELSE <<>>

\* A handler hands back a record: the session afterwards, the Engine method
\* it called (call, "" when it called none), the world after that method
\* (r) and the messages the handler itself sent (sent).
Handled(sess, r, call, sent) ==
  [session |-> sess, r |-> r, call |-> call, sent |-> sent]

\* the world of a handler that calls no Engine method
Untouched(en, s, chans, tks) ==
  [e |-> en, sim |-> s, closed |-> chans, tickers |-> tks,
   err |-> NoErr, out |-> NoEvent]

\* a handler that returns after sendError without calling the engine
Refused(sess, en, s, chans, tks, code) ==
  Handled(sess, Untouched(en, s, chans, tks), "",
          <<sendError(code)>>)

\* the end of handleStartSimulation, after eng.Initialize
started(sess, en, s, chans, tks, project, r) ==
  IF r.err # NoErr
    THEN Refused(sess, en, s, chans, tks, "init_error")
    ELSE Handled(project, r, "Initialize", <<stateMessage(r.e, r.sim)>>)

\* handleStartSimulation with the unknown project ending the session
handleStartSimulationClosing(sess, en, s, chans, tks, valid, project, n) ==
  IF ~valid
    THEN Refused(sess, en, s, chans, tks, "invalid_payload")
  ELSE IF project \notin Factories
    THEN Refused(NoSession, en, s, chans, tks, "unknown_project")
  ELSE
    started(sess, en, s, chans, tks, project,
            Initialize(NewEngine, NewSimulation, {}, NoTickers, n))

\* handleStartSimulation(clientID, msg): valid is whether the payload
\* parses, project is req.Config.Project, n stands for req.Config.Parameters
handleStartSimulation(sess, en, s, chans, tks, valid, project, n) ==
  IF ~valid
    THEN Refused(sess, en, s, chans, tks, "invalid_payload")
  ELSE IF project \notin Factories
    THEN Refused(sess, en, s, chans, tks, "unknown_project")
  ELSE
    started(sess, en, s, chans, tks, project,
            Initialize(NewEngine, NewSimulation, {}, NoTickers, n))

\* the end of handleStepForward, after session.Engine.StepForward()
steppedForward(sess, r) ==
  Handled(sess, r, "StepForward",
          IF r.err = NoErr THEN <<>>
          ELSE IF r.err = ErrNoMoreSteps THEN <<sendError("no_more_steps")>>
          ELSE <<sendError("step_error")>>)

\* handleStepForward(clientID)
handleStepForward(sess, en, s, chans, tks) ==
  IF sess = NoSession
    THEN Refused(sess, en, s, chans, tks, "no_session")
    ELSE steppedForward(sess, StepForward(en, s, chans, tks))

\* the end of a handler that reports the error of its Engine method
reported(sess, r, call, code) ==
  Handled(sess, r, call,
          IF r.err = NoErr THEN <<>> ELSE <<sendError(code)>>)

\* handleStepBackward(clientID)
handleStepBackward(sess, en, s, chans, tks) ==
  IF sess = NoSession
    THEN Refused(sess, en, s, chans, tks, "no_session")
    ELSE reported(sess, StepBackward(en, s, chans, tks), "StepBackward",
                  "step_error")

\* handlePlay(clientID)
handlePlay(sess, en, s, chans, tks) ==
  IF sess = NoSession
    THEN Refused(sess, en, s, chans, tks, "no_session")
    ELSE reported(sess, Play(en, s, chans, tks), "Play", "play_error")

\* handlePause(clientID): returns without a message when there is no
\* session
handlePause(sess, en, s, chans, tks) ==
  IF sess = NoSession
    THEN Handled(sess, Untouched(en, s, chans, tks), "", <<>>)
    ELSE Handled(sess, Pause(en, s, chans, tks), "Pause", <<>>)

\* the end of handleReset, after session.Engine.Reset()
resetDone(sess, r) ==
  Handled(sess, r, "Reset",
          IF r.err # NoErr THEN <<sendError("reset_error")>>
          ELSE <<stateMessage(r.e, r.sim)>>)

\* handleReset(clientID)
handleReset(sess, en, s, chans, tks) ==
  IF sess = NoSession
    THEN Refused(sess, en, s, chans, tks, "no_session")
    ELSE resetDone(sess, Reset(en, s, chans, tks))

\* handleSetSpeed(clientID, msg): the session is looked up before the
\* payload is parsed
handleSetSpeed(sess, en, s, chans, tks, valid, speed) ==
  IF sess = NoSession
    THEN Refused(sess, en, s, chans, tks, "no_session")
  ELSE IF ~valid
    THEN Refused(sess, en, s, chans, tks, "invalid_payload")
  ELSE Handled(sess, SetSpeed(en, s, chans, tks, speed), "SetSpeed",
               <<>>)

\* handleGetState(clientID)
handleGetState(sess, en, s, chans, tks) ==
  IF sess = NoSession
    THEN Refused(sess, en, s, chans, tks, "no_session")
    ELSE Handled(sess, Untouched(en, s, chans, tks), "",
                 <<stateMessage(en, s)>>)

\* handleExecuteOperation(clientID, msg): logs the request and no more
handleExecuteOperation(sess, en, s, chans, tks) ==
  Handled(sess, Untouched(en, s, chans, tks), "", <<>>)

\* ------------------------------------------------------------ client requests
\* the world after a handler: the engine is as its method left it, the
\* event of the method is the last one emitted, and an engine made by
\* handleStartSimulation has no goroutine yet
Serve(req, h) ==
  /\ request' = req
  /\ session' = h.session
  /\ reply' = h.sent
  /\ e' = h.r.e
  /\ sim' = h.r.sim
  /\ closed' = h.r.closed
  /\ tickers' = h.r.tickers
  /\ out' = IF h.call = "" THEN out ELSE h.r.out
  /\ last' = IF h.call = "" THEN last
             ELSE Did(h.call, req.arg, 0, h.r.err)
  /\ tasks' = IF h.call = "Initialize" THEN NoTasks
              ELSE IF h.call = "Play" THEN Spawn(tasks, h.r)
              ELSE tasks
  /\ UNCHANGED <<polled, btreeVars, mvccVars, traceVars, parserVars, holdVars>>

\* a start request for a project, its payload parsing or not
StartRequest(valid, project) ==
  \E n \in TraceLens :
    /\ Serve(Request("start_simulation", project, n, valid),
             handleStartSimulation(session, e, sim, closed, tickers, valid,
                                   project, n))

HandleStartSimulation ==
  \E valid \in BOOLEAN, project \in RequestedProjects :
    StartRequest(valid, project)

HandleStepForward ==
  /\ session # NoSession /\ StepForward(e, sim, closed, tickers).err = NoErr
       => Len(e.history) < MaxHistory
  /\ Serve(Request("step_forward", "", 0, TRUE),
           handleStepForward(session, e, sim, closed, tickers))

HandleStepBackward ==
  /\ Serve(Request("step_backward", "", 0, TRUE),
           handleStepBackward(session, e, sim, closed, tickers))

HandlePlay ==
  /\ session # NoSession /\ Play(e, sim, closed, tickers).err = NoErr
       => e.stopChan < MaxPlays
  /\ Serve(Request("resume_simulation", "", 0, TRUE),
           handlePlay(session, e, sim, closed, tickers))

HandlePause ==
  /\ Serve(Request("pause_simulation", "", 0, TRUE),
           handlePause(session, e, sim, closed, tickers))

HandleReset ==
  /\ Serve(Request("reset", "", 0, TRUE),
           handleReset(session, e, sim, closed, tickers))

HandleSetSpeed ==
  \E valid \in BOOLEAN, x \in SpeedInputs :
    /\ Serve(Request("set_speed", "", x, valid),
             handleSetSpeed(session, e, sim, closed, tickers, valid, x))

HandleGetState ==
  /\ Serve(Request("get_state", "", 0, TRUE),
           handleGetState(session, e, sim, closed, tickers))

HandleExecuteOperation ==
  /\ Serve(Request("execute_operation", "", 0, TRUE),
           handleExecuteOperation(session, e, sim, closed, tickers))

NextManager ==
  \/ HandleStartSimulation
  \/ HandleStepForward
  \/ HandleStepBackward
  \/ HandlePlay
  \/ HandlePause
  \/ HandleReset
  \/ HandleSetSpeed
  \/ HandleGetState
  \/ HandleExecuteOperation
  \/ \E t \in TaskIds : LoopStart(t)
  \/ \E t \in TaskIds : LoopStop(t)
  \/ \E t \in TaskIds : LoopTick(t)
  \/ \E t \in TaskIds : LoopStepForward(t)
  \/ \E t \in TaskIds : LoopPause(t)

SpecManager == Init /\ [][NextManager]_vars

\* ------------------------------------------------------------ B-Tree calls
Keys == 1..MaxKey
Orders == 3..MaxOrder

\* the configured initial keys
InitialKeys == {<<>>, <<1, 2>>}

\* the keys held by the nodes of a tree
AllKeys(bt) ==
  UNION {Ids(bt.Nodes[id].Keys) : id \in DOMAIN bt.Nodes}

TreeDid(op, key, deleted, panic) ==
  [op |-> op, key |-> key, deleted |-> deleted, panic |-> panic]

\* Initialize(config) with an order and initial keys
DoBTreeInitialize ==
  /\ ~bdone.panic
  /\ \E order \in Orders, initialKeys \in InitialKeys :
        bsim' = BTreeInitialize(bsim, order, initialKeys)
  /\ bdone' = TreeDid("Initialize", 0, FALSE, FALSE)
  /\ UNCHANGED <<engineVars, mvccVars, restVars>>

\* Reset()
DoBTreeReset ==
  /\ ~bdone.panic
  /\ bsim' = BTreeReset(bsim)
  /\ bdone' = TreeDid("Reset", 0, FALSE, FALSE)
  /\ UNCHANGED <<engineVars, mvccVars, restVars>>

\* PrepareInsert(key) of a key the tree does not hold; the range over
\* treeCopy.Nodes comes upon the new nodes in any order
DoPrepareInsert ==
  /\ ~bdone.panic
  /\ \E key \in Keys \ AllKeys(bsim.tree) :
        /\ Insert(bsim.tree, key).nodeSeq <= MaxNodes
        /\ \E visit \in Orderings(NewNodeIds(bsim.tree,
                                             Insert(bsim.tree, key))) :
              bsim' = PrepareInsert(bsim, key, visit)
        /\ bdone' = TreeDid("PrepareInsert", key, FALSE, FALSE)
  /\ UNCHANGED <<engineVars, mvccVars, restVars>>

\* the simulation after PrepareDelete, r being what it handed back
DeleteDone(key, r) ==
  /\ bsim' = r.sim
  /\ bdone' = TreeDid("PrepareDelete", key, r.deleted, r.panic)

\* PrepareDelete(key); a panic of Delete ends the program
DoPrepareDelete ==
  /\ ~bdone.panic
  /\ \E key \in Keys : DeleteDone(key, PrepareDelete(bsim, key))
  /\ UNCHANGED <<engineVars, mvccVars, restVars>>

NextBTree ==
  \/ DoBTreeInitialize
  \/ DoBTreeReset
  \/ DoPrepareInsert
  \/ DoPrepareDelete

SpecBTree == Init /\ [][NextBTree]_vars

\* ------------------------------------------------------------ store calls
TxIds == 1..MaxTx
WriterIds == 1..MaxWriters
RowIds == 1..MaxRow

StoreDid(op, tx, row, r) ==
  [op |-> op, tx |-> tx, row |-> row, err |-> r.err, ver |-> r.ver,
   removed |-> r.removed, panic |-> r.panic]

\* tx can take one more entry in its read set / write set
RoomToRead(tx) ==
  tx \in DOMAIN store.Transactions
    => Len(store.Transactions[tx].ReadSet) < MaxReads
RoomToWrite(tx) ==
  tx \in DOMAIN store.Transactions
    => Len(store.Transactions[tx].WriteSet) < MaxWrites

\* BeginTransaction()
DoBeginTransaction ==
  /\ ~mdone.panic
  /\ store.txSeq < MaxTx
  /\ LET r == BeginTransaction(store)
     IN  /\ store' = r.store
         /\ mdone' = StoreDid("BeginTransaction", r.store.txSeq, 0, r)
         /\ marks' = marks
  /\ UNCHANGED <<engineVars, btreeVars, restVars>>

\* Read(txID, rowID)
DoRead ==
  /\ ~mdone.panic
  /\ \E tx \in TxIds, row \in RowIds :
        /\ RoomToRead(tx)
        /\ LET r == Read(store, tx, row)
           IN  /\ store' = r.store
               /\ mdone' = StoreDid("Read", tx, row, r)
               /\ marks' = marks
  /\ UNCHANGED <<engineVars, btreeVars, restVars>>

\* Write(txID, rowID, data)
DoWrite ==
  /\ ~mdone.panic
  /\ store.verSeq < MaxVersions
  /\ \E tx \in WriterIds, row \in RowIds :
        /\ RoomToWrite(tx)
        /\ LET r == Write(store, tx, row)
           IN  /\ store' = r.store
               /\ mdone' = StoreDid("Write", tx, row, r)
               /\ marks' = marks
  /\ UNCHANGED <<engineVars, btreeVars, restVars>>

\* the mark a Delete places: on the head of the row's chain, when it returns
\* without error and the chain is not empty
Marked(s, r, tx, row) ==
  IF r.err = NoErr /\ ~r.panic /\ Len(s.Rows[row].VersionChain) > 0
    THEN {<<s.Rows[row].VersionChain[1], tx>>}
    ELSE {}

\* Delete(txID, rowID)
DoDelete ==
  /\ ~mdone.panic
  /\ \E tx \in WriterIds, row \in RowIds :
        /\ RoomToWrite(tx)
        /\ LET r == StoreDelete(store, tx, row)
           IN  /\ store' = r.store
               /\ mdone' = StoreDid("Delete", tx, row, r)
               /\ marks' = marks \cup Marked(store, r, tx, row)
  /\ UNCHANGED <<engineVars, btreeVars, restVars>>

\* Commit(txID)
DoCommit ==
  /\ ~mdone.panic
  /\ \E tx \in TxIds :
        LET r == Commit(store, tx)
        IN  /\ store' = r.store
            /\ mdone' = StoreDid("Commit", tx, 0, r)
            /\ marks' = marks
  /\ UNCHANGED <<engineVars, btreeVars, restVars>>

\* Abort(txID); a panic ends the program
DoAbort ==
  /\ ~mdone.panic
  /\ \E tx \in TxIds :
        LET r == Abort(store, tx)
        IN  /\ store' = r.store
            /\ mdone' = StoreDid("Abort", tx, 0, r)
            /\ marks' = marks
  /\ UNCHANGED <<engineVars, btreeVars, restVars>>

\* GarbageCollect(); the range over s.Rows comes upon the rows in any order
DoGarbageCollect ==
  /\ ~mdone.panic
  /\ \E visit \in Orderings(DOMAIN store.Rows) :
        LET r == GarbageCollect(store, visit)
        IN  /\ store' = r.store
            /\ mdone' = StoreDid("GarbageCollect", 0, 0, r)
            /\ marks' = marks
  /\ UNCHANGED <<engineVars, btreeVars, restVars>>

NextMVCC ==
  \/ DoBeginTransaction
  \/ DoRead
  \/ DoWrite
  \/ DoDelete
  \/ DoCommit
  \/ DoAbort
  \/ DoGarbageCollect

SpecMVCC == Init /\ [][NextMVCC]_vars

\* ------------------------------------------------------------ producer calls
\* the calls of an MVCCSimulation, which owns its store: the store changes
\* through the Prepare methods alone
TraceDid(op, tx, row, p) ==
  /\ store' = p.store
  /\ msim' = p.sim
  /\ mdone' = [op |-> op, tx |-> tx, row |-> row, err |-> NoErr, ver |-> 0,
               removed |-> <<>>, panic |-> p.panic]
  /\ marks' = marks

\* PrepareBeginTransaction()
DoPrepareBeginTransaction ==
  /\ ~mdone.panic
  /\ store.txSeq < MaxTx
  /\ TraceDid("PrepareBeginTransaction", store.txSeq + 1, 0,
              PrepareBeginTransaction(store))
  /\ UNCHANGED exceptTrace

\* PrepareRead(txID, rowID)
DoPrepareRead ==
  /\ ~mdone.panic
  /\ \E tx \in TxIds, row \in RowIds :
        /\ RoomToRead(tx)
        /\ TraceDid("PrepareRead", tx, row, PrepareRead(store, tx, row))
  /\ UNCHANGED exceptTrace

\* PrepareWrite(txID, rowID, data)
DoPrepareWrite ==
  /\ ~mdone.panic
  /\ store.verSeq < MaxVersions
  /\ \E tx \in WriterIds, row \in RowIds :
        /\ RoomToWrite(tx)
        /\ TraceDid("PrepareWrite", tx, row, PrepareWrite(store, tx, row))
  /\ UNCHANGED exceptTrace

\* PrepareCommit(txID)
DoPrepareCommit ==
  /\ ~mdone.panic
  /\ \E tx \in TxIds :
        TraceDid("PrepareCommit", tx, 0, PrepareCommit(store, tx))
  /\ UNCHANGED exceptTrace

\* PrepareAbort(txID)
DoPrepareAbort ==
  /\ ~mdone.panic
  /\ \E tx \in TxIds :
        TraceDid("PrepareAbort", tx, 0, PrepareAbort(store, tx))
  /\ UNCHANGED exceptTrace

\* PrepareGarbageCollect()
DoPrepareGarbageCollect ==
  /\ ~mdone.panic
  /\ \E visit \in Orderings(DOMAIN store.Rows) :
        TraceDid("PrepareGarbageCollect", 0, 0,
                 PrepareGarbageCollect(store, visit))
  /\ UNCHANGED exceptTrace

NextTrace ==
  \/ DoPrepareBeginTransaction
  \/ DoPrepareRead
  \/ DoPrepareWrite
  \/ DoPrepareCommit
  \/ DoPrepareAbort
  \/ DoPrepareGarbageCollect

SpecTrace == Init /\ [][NextTrace]_vars

\* ------------------------------------------------------------ parser calls
\* the words a query is written with, and two whole queries
Words ==
  {<<"S", "E", "L", "E", "C", "T">>,
   <<"*">>,
   <<"F", "R", "O", "M">>,
   <<"t">>,
   <<"W", "H", "E", "R", "E">>,
   <<"=">>,
   <<"1">>,
   <<"(">>,
   <<")">>,
   <<"O", "R">>,
   <<"O", "R", "D", "E", "R">>,
   <<"L", "I", "M", "I", "T">>,
   <<",">>}

\* SELECT * FROM users WHERE id = 1
ExampleQuery ==
  <<<<"S", "E", "L", "E", "C", "T">>,
    <<"*">>,
    <<"F", "R", "O", "M">>,
    <<"u", "s", "e", "r", "s">>,
    <<"W", "H", "E", "R", "E">>,
    <<"i", "d">>,
    <<"=">>,
    <<"1">>>>

\* a query with every clause, a join, aliases, parentheses and a string
LongQuery ==
  <<<<"S", "E", "L", "E", "C", "T">>,
    <<"a", ",">>,
    <<"b">>,
    <<"A", "S">>,
    <<"c">>,
    <<"F", "R", "O", "M">>,
    <<"t">>,
    <<"J", "O", "I", "N">>,
    <<"u">>,
    <<"O", "N">>,
    <<"a">>,
    <<"=">>,
    <<"b">>,
    <<"W", "H", "E", "R", "E">>,
    <<"(">>,
    <<"a">>,
    <<"<", "=">>,
    <<"1">>,
    <<"A", "N", "D">>,
    <<"b">>,
    <<"<", ">">>,
    <<"'", "x", "'">>,
    <<")">>,
    <<"O", "R">>,
    <<"a">>,
    <<"=">>,
    <<"2">>,
    <<"O", "R", "D", "E", "R">>,
    <<"B", "Y">>,
    <<"a">>,
    <<"D", "E", "S", "C">>,
    <<"L", "I", "M", "I", "T">>,
    <<"5">>,
    <<"O", "F", "F", "S", "E", "T">>,
    <<"2">>>>

\* the text of a query written as words: one space between two words
RECURSIVE JoinWords(_, _)
JoinWords(words, from) ==
  IF from > Len(words) THEN <<>>
  ELSE IF from = Len(words) THEN words[from]
  ELSE words[from] \o <<" ">> \o JoinWords(words, from + 1)

NoParserOp == [op |-> "", panic |-> FALSE]

\* the client writes one more word of the query of its start request
Compose ==
  /\ pdone.op = ""
  /\ Len(pquery) < MaxWords
  /\ \E word \in Words : pquery' = Append(pquery, word)
  /\ UNCHANGED <<psim, pdone>>
  /\ UNCHANGED exceptParser

\* the client takes a whole query for its start request
ComposeWhole ==
  /\ pdone.op = ""
  /\ pquery = <<>>
  /\ pquery' \in {ExampleQuery, LongQuery}
  /\ UNCHANGED <<psim, pdone>>
  /\ UNCHANGED exceptParser

\* the simulation after Initialize and whether it panicked
ParserDid(r) ==
  /\ psim' = r.sim
  /\ pdone' = [op |-> "Initialize", panic |-> r.panic]

\* Initialize(config) on the new simulation of a start request
DoParserInitialize ==
  /\ pdone.op = ""
  /\ ParserDid(ParserInitialize(psim, JoinWords(pquery, 1)))
  /\ UNCHANGED pquery
  /\ UNCHANGED exceptParser

\* the next start request gets a new simulation from the project's factory
NewQuery ==
  /\ pdone.op = "Initialize"
  /\ ~pdone.panic
  /\ psim' = NewParserSimulation
  /\ pquery' = <<>>
  /\ pdone' = NoParserOp
  /\ UNCHANGED exceptParser

NextParser ==
  \/ Compose
  \/ ComposeWhole
  \/ DoParserInitialize
  \/ NewQuery

SpecParser == Init /\ [][NextParser]_vars

\* ------------------------------------------------------------ properties
\* the rendering data a full-state query serves for the current position:
\* the current step (index, title, description, highlights) and the
\* producer snapshot
Rendering(en, s) ==
  [step |-> GetState(en, s).CurrentStep, data |-> GetState(en, s).Data]

\* C1: from any cursor position of an attached trace, stepForward followed
\* by stepBackward brings the cursor back to where it was, the rendering
\* data served for that position is what it was before the pair, and
\* neither the trace nor the producer has been reset.
C1_RoundTrip ==
  (Len(e.steps) > 0 /\ e.currentStep + 1 < Len(e.steps)) =>
    LET f == StepForward(e, sim, closed, tickers)
        b == StepBackward(f.e, f.sim, f.closed, f.tickers)
    IN  /\ f.err = NoErr /\ b.err = NoErr
        /\ b.e.currentStep = e.currentStep
        /\ Rendering(b.e, b.sim) = Rendering(e, sim)
        /\ b.e.steps = e.steps
        /\ b.sim.steps = sim.steps
        /\ b.sim.data = sim.data

\* the goroutine has returned or has been told to: the channel its select
\* waits on (or will wait on when it next enters the select) is closed
Signalled(t, en, cl) ==
  CASE tasks[t].pc = "select" -> tasks[t].ch \in cl
    [] tasks[t].pc \in {"start", "tick"} -> en.stopChan \in cl
    [] OTHER -> TRUE

\* autoplay is running: a playLoop goroutine is ticking and has not been
\* told to stop
Running(t) ==
  /\ tasks[t].pc \in {"start", "select", "tick"}
  /\ ~Signalled(t, e, closed)

\* C2: a pause() called while autoplay is running leaves the mode paused
\* with the autoplay goroutine told to stop, and after it has returned no
\* autoplay tick advances the cursor or changes the mode until the next
\* play().
C2_PauseStopsAutoplay ==
  [][ /\ (DoPause /\ \E t \in TaskIds : Running(t)) =>
          /\ e'.mode = ModePaused
          /\ \A t \in TaskIds : Signalled(t, e', closed')
      /\ \A t \in TaskIds :
          (last = Did("Pause", 0, 0, NoErr) /\ LoopStepForward(t)) =>
             (e'.currentStep = e.currentStep /\ e'.mode = e.mode)]_vars

\* C3: a tick of autoplay performs stepForward as one locked step; whatever
\* the client has done in between, a tick for which a next step exists
\* advances the cursor by exactly one and serves the step at the new
\* cursor, and a tick for which none exists changes nothing.
C3_TickAdvancesByOne ==
  [][\A t \in TaskIds :
       LoopStepForward(t) =>
         IF e.currentStep + 1 < Len(e.steps)
           THEN /\ e'.currentStep = e.currentStep + 1
                /\ e'.steps = e.steps
                /\ out'.event = "step_forward"
                /\ out'.payload.Step.Index = e.currentStep + 1
                /\ out'.payload.Step.Title = e.steps[e.currentStep + 2].Title
           ELSE e' = e /\ out' = NoEvent]_vars

\* C3 witness: autoplay has served the second step of the trace
C3_Witness ==
  /\ last.op = "StepForward" /\ last.by > 0 /\ last.err = NoErr
  /\ e.currentStep = 1

\* C4: when autoplay finds no step left (its stepForward has just failed
\* with ErrNoMoreSteps), its pause leaves the mode paused, the cursor on
\* the last step, and the goroutine ended.
C4_AutoplayEndsPaused ==
  [][\A t \in TaskIds :
       (last = Did("StepForward", 0, t, ErrNoMoreSteps) /\ LoopPause(t)) =>
         /\ e'.mode = ModePaused
         /\ e'.currentStep = Len(e'.steps) - 1
         /\ tasks'[t].pc = "done"]_vars

\* C5: play() in mode playing fails with ErrAlreadyRunning, changes nothing
\* of the engine, the producer, the channels or the tickers, emits nothing
\* and starts no goroutine.
C5_PlayWhilePlayingRejected ==
  e.mode = ModePlaying =>
    LET r == Play(e, sim, closed, tickers)
    IN  /\ r.err = ErrAlreadyRunning
        /\ r.e = e /\ r.sim = sim /\ r.closed = closed
        /\ r.tickers = tickers
        /\ r.out = NoEvent
        /\ Spawn(tasks, r) = tasks

\* C5 witness: a play() has been rejected in mode playing
C5_Witness ==
  /\ last = Did("Play", 0, 0, ErrAlreadyRunning)
  /\ e.mode = ModePlaying
  /\ \E t \in TaskIds : Live(t)

\* C6 as stated: stepForward() with the cursor at len(trace)-1 fails with
\* ErrNoMoreSteps and stepBackward() with the cursor at -1 fails with
\* ErrNoPreviousSteps, and neither changes the engine, the producer, the
\* channels, the tickers or the goroutines.
C6_BoundaryRejected ==
  [][ /\ (DoStepForward /\ e.currentStep = Len(e.steps) - 1) =>
          /\ last'.err = ErrNoMoreSteps
          /\ UNCHANGED <<e, sim, closed, tickers, tasks>>
      /\ (DoStepBackward /\ e.currentStep = -1) =>
          /\ last'.err = ErrNoPreviousSteps
          /\ UNCHANGED <<e, sim, closed, tickers, tasks>>]_vars

\* C6 amended: as C6, except that with no step attached (len(trace) = 0,
\* cursor -1) stepForward() fails with ErrNotInitialized instead of
\* ErrNoMoreSteps; it still changes nothing.
C6_BoundaryRejectedAmended ==
  [][ /\ (DoStepForward /\ e.currentStep = Len(e.steps) - 1) =>
          /\ last'.err = IF Len(e.steps) = 0 THEN ErrNotInitialized
                                             ELSE ErrNoMoreSteps
          /\ out' = NoEvent
          /\ UNCHANGED <<e, sim, closed, tickers, tasks>>
      /\ (DoStepBackward /\ e.currentStep = -1) =>
          /\ last'.err = ErrNoPreviousSteps
          /\ out' = NoEvent
          /\ UNCHANGED <<e, sim, closed, tickers, tasks>>]_vars

\* C6 witness: on a trace with steps, a stepForward() at the last step has
\* been rejected
C6_Witness ==
  /\ last = Did("StepForward", 0, 0, ErrNoMoreSteps)
  /\ Len(e.steps) > 0
  /\ e.currentStep = Len(e.steps) - 1

\* C7: in every reachable state the cursor is at least -1 and at most
\* len(trace)-1.
C7_CursorInRange ==
  /\ e.currentStep >= -1
  /\ e.currentStep <= Len(e.steps) - 1

\* C7 witness: the cursor has been stepped to the last step and back to
\* before the first one, where a further stepBackward() was rejected
C7_Witness ==
  /\ last = Did("StepBackward", 0, 0, ErrNoPreviousSteps)
  /\ Len(e.steps) > 0
  /\ e.currentStep = -1
  /\ \E t \in TaskIds : tasks[t].pc = "done"

\* C8: attaching a trace (a start request initializing the engine) leaves
\* the engine in mode step with the cursor at -1.
C8_AttachEntersStep ==
  [][StartSimulation => (e'.mode = ModeStep /\ e'.currentStep = -1)]_vars

\* C9: reset() from any state leaves the engine idle with cursor -1 and no
\* step attached, and every autoplay goroutine has returned or has been
\* told to stop.
C9_ResetStopsEverything ==
  [][DoReset =>
       /\ e'.mode = ModeIdle
       /\ e'.currentStep = -1
       /\ Len(e'.steps) = 0
       /\ \A t \in TaskIds : Signalled(t, e', closed')]_vars

C13_RequestAttachesTrace ==
  [][StartSimulation => Len(e'.steps) > 0]_vars

\* C12: the structure served with a step is the structure captured when the
\* step was generated: the first step of an insert trace, generated before
\* the mutation, is served with the tree as it was before the insertion
C12_StepServesCapturedData ==
  [][DoPrepareInsert =>
       BTreeExecuteStep(bsim', 0).result.Data
         = cloneTreeData(bsim.tree, <<>>)]_vars

\* C14: trace generation is deterministic: every run of PrepareInsert with
\* the same key on the same producer state yields the trace this run
\* yielded (the same steps, the same highlights in the same order)
C14_TraceDeterministic ==
  [][DoPrepareInsert =>
       \A visit \in Orderings(NewNodeIds(bsim.tree, bsim'.tree)) :
         PrepareInsert(bsim, bdone'.key, visit).steps = bsim'.steps]_vars

\* the least number of keys of a non-root node of order m: ceil(m/2) - 1
MinKeys(m) == (m + 1) \div 2 - 1

\* every non-root node holds between ceil(m/2)-1 and m-1 keys
KeyCountsInBounds(bt) ==
  \A id \in DOMAIN bt.Nodes \ {bt.RootID} :
    /\ Len(bt.Nodes[id].Keys) >= MinKeys(bt.Order)
    /\ Len(bt.Nodes[id].Keys) <= bt.Order - 1

\* the depths at which the leaves below node id sit, id being at depth
RECURSIVE LeafDepths(_, _, _)
LeafDepths(bt, id, depth) ==
  IF bt.Nodes[id].IsLeaf THEN {depth}
  ELSE UNION {LeafDepths(bt, bt.Nodes[id].Children[j], depth + 1) :
                j \in 1..Len(bt.Nodes[id].Children)}

\* all leaves are at the same depth
LeavesAtEqualDepth(bt) ==
  bt.RootID # NoNode => Cardinality(LeafDepths(bt, bt.RootID, 0)) = 1

\* every internal node has exactly one more child than keys
ChildrenMatchKeys(bt) ==
  \A id \in DOMAIN bt.Nodes :
    ~bt.Nodes[id].IsLeaf
      => Len(bt.Nodes[id].Children) = Len(bt.Nodes[id].Keys) + 1

\* C15: an insertion into a tree whose non-root nodes hold between
\* ceil(m/2)-1 and m-1 keys and whose leaves are at equal depth (as the
\* empty tree and every single-leaf tree are) leaves a tree of that kind,
\* for every order m >= 3
C15_InsertKeepsBounds ==
  [][DoPrepareInsert =>
       ((KeyCountsInBounds(bsim.tree) /\ LeavesAtEqualDepth(bsim.tree))
          => (KeyCountsInBounds(bsim'.tree)
                /\ LeavesAtEqualDepth(bsim'.tree)))]_vars

\* C16: Delete(k) on a tree that holds k returns true, after which k is not
\* found and every other key still is; on a tree that does not hold k it
\* returns false and leaves the key set unchanged
C16_DeleteRemovesExactlyK ==
  [][DoPrepareDelete =>
       LET k == bdone'.key
           before == AllKeys(bsim.tree)
       IN  IF k \in before
             THEN /\ bdone'.deleted
                  /\ ~Search(bsim'.tree, k).found
                  /\ \A other \in before \ {k} :
                       Search(bsim'.tree, other).found
             ELSE /\ ~bdone'.deleted
                  /\ AllKeys(bsim'.tree) = before]_vars

\* C17: once a delete has removed the last key, the tree is empty: it has
\* no node and its root id is cleared
C17_DeleteAllEmptiesTree ==
  [][DoPrepareDelete =>
       ((AllKeys(bsim.tree) # {} /\ AllKeys(bsim'.tree) = {})
          => (bsim'.tree.RootID = NoNode
                /\ DOMAIN bsim'.tree.Nodes = {}))]_vars

\* C18: a completed delete on a tree satisfying the B-Tree invariants leaves
\* every non-root node with between ceil(m/2)-1 and m-1 keys, all leaves at
\* equal depth, and every internal node with one more child than keys
C18_DeleteKeepsInvariants ==
  [][(DoPrepareDelete /\ ~bdone'.panic) =>
       ((/\ KeyCountsInBounds(bsim.tree)
         /\ LeavesAtEqualDepth(bsim.tree)
         /\ ChildrenMatchKeys(bsim.tree))
          => (/\ KeyCountsInBounds(bsim'.tree)
              /\ LeavesAtEqualDepth(bsim'.tree)
              /\ ChildrenMatchKeys(bsim'.tree)))]_vars

\* the split steps of a trace (their positions)
SplitSteps(steps) ==
  {j \in 1..Len(steps) : steps[j].Title.text = "Split Occurred"}

\* the ids highlighted by a step
HighlightedIds(step) ==
  {step.Highlights[j].ID : j \in 1..Len(step.Highlights)}

\* a node holding Order-1 keys
IsFull(bt, id) == Len(bt.Nodes[id].Keys) = bt.Order - 1

\* the leaf at the end of the insertion path of key
TargetLeaf(bt, key) ==
  LET path == findInsertionPath(bt, key) IN path[Len(path)]

\* keys in ascending order
Ascending(keys) == \A i, j \in 1..Len(keys) : i < j => keys[i] < keys[j]

CommittedBefore(t1, t2) ==
  /\ store.Transactions[t1].Status = TxCommitted
  /\ store.Transactions[t1].CommitTime <= store.Transactions[t2].StartTime

\* the versions in the store that t wrote
WrittenBy(t) == {v \in DOMAIN store.Versions : store.Versions[v].CreatedBy = t}

\* v carries the delete mark of a transaction that committed before t2 began
DeletedBefore(v, t2) ==
  /\ store.Versions[v].DeletedBy # 0
  /\ CommittedBefore(store.Versions[v].DeletedBy, t2)

\* C20: for all transactions t1 and t2 such that t1 commits before t2
\* begins, every version t1 wrote is visible to t2
C20_CommittedWritesVisible ==
  \A t1, t2 \in DOMAIN store.Transactions :
    CommittedBefore(t1, t2)
      => \A v \in WrittenBy(t1) : isVisible(store, t2, v)

\* C20 (amended): for all transactions t1 and t2 such that t1 commits before
\* t2 begins, every version t1 wrote that is still in the store is visible
\* to t2 unless it carries the delete mark of a transaction (t1 or another)
\* that also committed before t2 began, in which case it is not visible
C20_CommittedWritesVisibleAmended ==
  \A t1, t2 \in DOMAIN store.Transactions :
    CommittedBefore(t1, t2)
      => \A v \in WrittenBy(t1) :
           isVisible(store, t2, v) <=> ~DeletedBefore(v, t2)

\* t2 has just read a version written by another transaction that committed
\* before t2 began
C20_Witness ==
  /\ mdone.op = "Read"
  /\ mdone.err = NoErr
  /\ mdone.ver \in DOMAIN store.Versions
  /\ store.Versions[mdone.ver].CreatedBy # mdone.tx
  /\ CommittedBefore(store.Versions[mdone.ver].CreatedBy, mdone.tx)

\* the creator of version v has not committed
Uncommitted(v) ==
  store.Transactions[store.Versions[v].CreatedBy].Status # TxCommitted

\* C21: no dirty reads: a version whose creating transaction has not
\* committed is visible to no transaction other than its creator, and Read
\* by another transaction never returns it
C21_NoDirtyReads ==
  /\ \A t \in DOMAIN store.Transactions, v \in DOMAIN store.Versions :
        (store.Versions[v].CreatedBy # t /\ Uncommitted(v))
          => ~isVisible(store, t, v)
  /\ \A t \in DOMAIN store.Transactions, row \in DOMAIN store.Rows :
        LET ver == Read(store, t, row).ver
        IN  ver # 0 => (store.Versions[ver].CreatedBy = t \/ ~Uncommitted(ver))

\* a transaction has just read a row whose newest version another, still
\* active, transaction wrote, and was handed no version
C21_Witness ==
  /\ mdone.op = "Read"
  /\ mdone.err = ErrNoVisibleVersion
  /\ mdone.row \in DOMAIN store.Rows
  /\ LET head == store.Rows[mdone.row].VersionChain[1]
     IN  /\ store.Versions[head].CreatedBy # mdone.tx
         /\ store.Transactions[store.Versions[head].CreatedBy].Status = TxActive

\* the transactions of s that are active
ActiveTxs(s) ==
  {t \in DOMAIN s.Transactions : s.Transactions[t].Status = TxActive}

\* C22: GarbageCollect preserves every active snapshot: for every active
\* transaction and every row, the version visible before the collection is
\* still in the row's chain afterwards, and Read returns the same version
\* before and after
C22_CollectKeepsSnapshots ==
  [][DoGarbageCollect =>
       \A t \in ActiveTxs(store), row \in DOMAIN store.Rows :
         LET before == FirstVisible(store, t, store.Rows[row].VersionChain, 1)
         IN  before # 0 =>
               /\ before \in Ids(store'.Rows[row].VersionChain)
               /\ Read(store', t, row).ver = before]_vars

\* C23: Abort(tx) of an active transaction always completes; afterwards tx
\* is aborted, no version created by tx is left in the version table or in
\* any row's chain, no row is left with an empty chain, and the versions of
\* the other transactions are as they were; this for every write set,
\* several writes or deletes of one row included
C23_AbortUndoesWrites ==
  [][(DoAbort /\ mdone'.tx \in ActiveTxs(store)) =>
       LET tx == mdone'.tx
       IN  /\ ~mdone'.panic
           /\ mdone'.err = NoErr
           /\ store'.Transactions[tx].Status = TxAborted
           /\ \A v \in DOMAIN store'.Versions :
                 store'.Versions[v].CreatedBy # tx
           /\ \A row \in DOMAIN store'.Rows :
                 /\ Len(store'.Rows[row].VersionChain) > 0
                 /\ Ids(store'.Rows[row].VersionChain)
                      \subseteq DOMAIN store'.Versions
           /\ \A v \in DOMAIN store.Versions :
                 store.Versions[v].CreatedBy # tx
                   => /\ v \in DOMAIN store'.Versions
                      /\ store'.Versions[v] = store.Versions[v]]_vars

\* the verdict steps and the found steps of a read trace, in order
VerdictOf(steps) == SelectSeq(steps, LAMBDA st : st.Title.text = "Check")
FoundOf(steps) == SelectSeq(steps, LAMBDA st : st.Title.text = "Version Found")

\* a verdict step reports its version visible
SaysVisible(st) == st.Highlights[1].Color = ColorVisible

\* the read trace steps agrees with the store s on the chain of row for tx
AgreesWithRule(steps, s, tx, row) ==
  LET chain == s.Rows[row].VersionChain
      checks == VerdictOf(steps)
      found == FoundOf(steps)
  IN  /\ Len(checks) <= Len(chain)
      /\ \A j \in 1..Len(checks) :
            /\ checks[j].Title.arg = chain[j]
            /\ SaysVisible(checks[j]) <=> isVisible(s, tx, chain[j])
            /\ j < Len(checks) => ~SaysVisible(checks[j])
      /\ Len(checks) < Len(chain)
           => (Len(checks) > 0 /\ SaysVisible(checks[Len(checks)]))
      /\ Len(found) <= 1
      /\ (IF Len(found) = 1 THEN found[1].Title.arg ELSE 0)
           = Read(s, tx, row).ver

\* C24: for every transaction and row the trace generated for Read(tx, row)
\* walks the row's chain from the newest version, has one verdict step per
\* version examined, reports a version visible exactly when the store's
\* visibility rule holds for it, stops at the first visible version, and
\* reports found the version the store's Read returns
C24_ReadTraceFollowsRule ==
  [][(/\ DoPrepareRead
      /\ mdone'.tx \in DOMAIN store.Transactions
      /\ mdone'.row \in DOMAIN store.Rows)
       => AgreesWithRule(msim'.steps, store, mdone'.tx, mdone'.row)]_vars

\* the call op(tx, row) names a transaction that does not exist or is no
\* longer active, or reads a row that does not exist
NamesNothing(op, tx, row) ==
  \/ tx \notin ActiveTxs(store)
  \/ (op = "PrepareRead" /\ row \notin DOMAIN store.Rows)

\* the trace ends with a step that describes a failure and highlights nothing
EndsWithFailure(steps) ==
  /\ Len(steps) > 0
  /\ steps[Len(steps)].Title.text = "Error"
  /\ steps[Len(steps)].Highlights = <<>>

\* C25: a read, write, commit or abort request that names a nonexistent or
\* no-longer-active transaction, or a nonexistent row, returns normally with
\* a trace whose last step describes the failure with empty highlights, and
\* leaves the store unchanged
C25_FailuresAreTraced ==
  [][(/\ DoPrepareRead \/ DoPrepareWrite \/ DoPrepareCommit \/ DoPrepareAbort
      /\ NamesNothing(mdone'.op, mdone'.tx, mdone'.row))
       => /\ ~mdone'.panic
          /\ EndsWithFailure(msim'.steps)
          /\ store' = store]_vars

\* the query producer has been initialized with the query written
HasParsed == pdone.op = "Initialize" /\ pquery # <<>>

\* the parser as Parse leaves it on the tokens of the producer
ParserAfter == Parse(NewParser(psim.tokens)).p

\* the parser came upon a violation of the grammar: it recorded an error
\* (a missing table name or operand, a missing closing parenthesis) or
\* stopped before the EOF token (trailing tokens)
SyntaxViolation(p) == Len(p.errors) > 0 \/ p.pos < Len(p.tokens) - 1

\* the trace ends with an error step
EndsWithParseError ==
  /\ psim.parsePhase = "error"
  /\ Len(psim.steps) > 0
  /\ psim.steps[Len(psim.steps)].Title.text = "Parse Error"

\* C26: parsing is total and reports syntax violations in the trace: for
\* every token sequence the parser returns without crashing, and whenever
\* the input violates the SELECT grammar parsing aborts, the violation is
\* recorded, and the trace ends with an error step
C26_ParsingIsTotal ==
  HasParsed
    => /\ ~pdone.panic
       /\ SyntaxViolation(ParserAfter) => EndsWithParseError

\* the kinds and the values of the producer's tokens
TokenKinds == [j \in 1..Len(psim.tokens) |-> psim.tokens[j].Type]
TokenValues == [j \in 1..Len(psim.tokens) |-> psim.tokens[j].Value]

\* the kinds of the children of the AST root, in order
RootChildren ==
  [j \in 1..Len(psim.astNodes[psim.astRoot].Children) |->
     psim.astNodes[psim.astNodes[psim.astRoot].Children[j]].Type]

\* the place of a clause in a SELECT statement
ClauseRank ==
  ("COLUMNS" :> 1) @@ ("FROM" :> 2) @@ ("WHERE" :> 3) @@ ("ORDER_BY" :> 4)
  @@ ("LIMIT" :> 5)

\* C27: parsing SELECT * FROM users WHERE id = 1 yields the token kinds
\* SELECT, STAR, FROM, IDENTIFIER(users), WHERE, IDENTIFIER(id),
\* OPERATOR(=), NUMBER(1), EOF, with exactly one trailing EOF, and a root of
\* kind statement whose children are columns, from, where; and the root of
\* every successfully parsed SELECT has its clause children in the order
\* columns, from, where, order-by, limit, each at most once
C27_ExampleAndClauseOrder ==
  /\ (pdone.op = "Initialize" /\ pquery = ExampleQuery)
       => /\ TokenKinds = <<"SELECT", "STAR", "FROM", "IDENTIFIER", "WHERE",
                            "IDENTIFIER", "OPERATOR", "NUMBER", "EOF">>
          /\ TokenValues[4] = <<"u", "s", "e", "r", "s">>
          /\ TokenValues[6] = <<"i", "d">>
          /\ TokenValues[7] = <<"=">>
          /\ TokenValues[8] = <<"1">>
          /\ psim.parsePhase = "complete"
          /\ psim.astNodes[psim.astRoot].Type = "STATEMENT"
          /\ RootChildren = <<"COLUMNS", "FROM", "WHERE">>
  /\ (HasParsed /\ psim.parsePhase = "complete")
       => /\ psim.astNodes[psim.astRoot].Type = "STATEMENT"
          /\ \A j \in 1..Len(RootChildren) : RootChildren[j] \in DOMAIN ClauseRank
          /\ \A j, k \in 1..Len(RootChildren) :
                j < k => ClauseRank[RootChildren[j]] < ClauseRank[RootChildren[k]]
          /\ \A j \in 1..Len(TokenKinds) :
                TokenKinds[j] = "EOF" <=> j = Len(TokenKinds)

\* the example query has been parsed
C27_Witness ==
  /\ pdone.op = "Initialize"
  /\ pquery = ExampleQuery
  /\ psim.parsePhase = "complete"
  /\ Len(RootChildren) = 3

\* ------------------------------------------------------------ session properties
\* a control request: every request but the start request
ControlRequest ==
  \/ HandleStepForward
  \/ HandleStepBackward
  \/ HandlePlay
  \/ HandlePause
  \/ HandleReset
  \/ HandleSetSpeed
  \/ HandleGetState

\* C28: every control request (stepForward, stepBackward, play, pause,
\* reset, setSpeed, getState) handled for a client that has no session
\* sends the client the error no_session and leaves the client without a
\* session
C28_NoSessionIsReported ==
  [][ControlRequest /\ session = NoSession
       => /\ reply' = <<sendError("no_session")>>
          /\ session' = NoSession]_vars

\* the client is sent exactly one step-update message, for the cursor
StepUpdateFor(messages, cursor) ==
  /\ Len(messages) = 1
  /\ messages[1].type = MsgStepUpdate
  /\ messages[1].payload.Step.Index = cursor

\* a stepForward of the client or of autoplay, or a stepBackward, that
\* returned no error
SteppedWell ==
  /\ \/ HandleStepForward
     \/ HandleStepBackward
     \/ \E t \in TaskIds : LoopStepForward(t)
  /\ session # NoSession
  /\ last'.op \in {"StepForward", "StepBackward"}
  /\ last'.err = NoErr

\* C29: every stepForward or stepBackward that succeeds, the stepBackward
\* from cursor 0 to -1 included, has a step-update message for the new
\* cursor position sent to the session's client
C29_StepsReachClient ==
  [][SteppedWell => StepUpdateFor(sendEvent(out'), e'.currentStep)]_vars

\* a handler sent the client an error
SentError == \E i \in 1..Len(reply') : reply'[i].type = MsgError

\* the session, its engine (with the trace it serves), its producer, its
\* channels, tickers and goroutines are as they were
SessionAsItWas == UNCHANGED <<session, e, sim, closed, tickers, tasks>>

\* C30: a start request that names an unregistered project, or whose
\* payload does not parse, sends the client the error unknown_project or
\* invalid_payload and leaves the client's session, its engine state and
\* its trace exactly as they were; and so does every request whose handler
\* sends an error
C30_ErrorsLeaveSessionAlone ==
  [][/\ \A valid \in BOOLEAN, project \in RequestedProjects :
          StartRequest(valid, project) /\ (~valid \/ project \notin Factories)
            => /\ reply' = <<sendError(IF valid THEN "unknown_project"
                                                ELSE "invalid_payload")>>
               /\ SessionAsItWas
     /\ (ControlRequest \/ HandleStartSimulation) /\ SentError
            => SessionAsItWas]_vars

\* a client whose playback is running has been refused a start request for
\* an unregistered project
C30_Witness ==
  /\ request.kind = "start_simulation"
  /\ request.project = "lsm-tree"
  /\ request.valid
  /\ reply = <<sendError("unknown_project")>>
  /\ session = "query-parser"
  /\ e.mode = ModePlaying
  /\ e.currentStep >= 0

\* ------------------------------------------------------------ navigation properties
\* the step information served for the cursor is that of the trace step
\* under the cursor
ServesTraceStep(info, en) ==
  /\ info.Index = en.steps[en.currentStep + 1].Index
  /\ info.Title = en.steps[en.currentStep + 1].Title
  /\ info.Description = en.steps[en.currentStep + 1].Description
  /\ info.Highlights = en.steps[en.currentStep + 1].Highlights

\* C31: a stepBackward that lands on a cursor j >= 0 serves exactly trace
\* step j (title, description, highlights), and the state reported at a
\* cursor j >= 0 carries the highlights of trace step j, after any sequence
\* of stepForward and stepBackward calls
C31_BackwardServesTraceStep ==
  [][/\ (DoStepBackward /\ last'.err = NoErr /\ e'.currentStep >= 0)
          => /\ out'.event = "step_backward"
             /\ ServesTraceStep(out'.payload.Step, e')
     /\ (e'.currentStep >= 0 /\ e'.currentStep < Len(e'.steps))
          => ServesTraceStep(GetState(e', sim').CurrentStep, e')]_vars

\* C32: stepping backward never changes the trace or the producer: the
\* stepBackward that moves the cursor from 0 to -1 leaves the engine's
\* trace and the producer as they were, and a stepForward that lands on
\* cursor 0 serves step 0 as the trace holds it (a successful result with
\* the description and highlights of step 0 and the producer's snapshot of
\* the operation)
C32_BackwardLeavesProducerAlone ==
  [][/\ (DoStepBackward /\ last'.err = NoErr)
          => /\ e'.steps = e.steps
             /\ sim' = sim
     /\ (DoStepForward /\ last'.err = NoErr /\ e'.currentStep = 0)
          => /\ e'.history[Len(e'.history)].Success
             /\ out'.payload.Step.Description = e.steps[1].Description
             /\ out'.payload.Step.Highlights = e.steps[1].Highlights
             /\ out'.payload.StepData.tokens = Len(e.steps)]_vars

\* C33: while autoplay is active the mode stays playing: a stepForward of
\* an autoplay tick leaves the mode playing, and the mode of an engine
\* leaves playing only through pause, reset or the autoplay goroutine
\* pausing at the end of the trace
C33_AutoplayKeepsPlaying ==
  [][/\ ((\E t \in TaskIds : LoopStepForward(t)) /\ e.mode = ModePlaying)
          => e'.mode = ModePlaying
     /\ (e.mode = ModePlaying /\ e'.mode # ModePlaying)
          => \/ DoPause
             \/ DoReset
             \/ StartSimulation
             \/ \E t \in TaskIds : LoopPause(t)]_vars

\* ------------------------------------------------------------ autoplay properties
\* the autoplay goroutines that are ticking and have not been told to stop
RunningTasks == {t \in TaskIds : Running(t)}

\* C39: at most one autoplay goroutine is active per engine at any time,
\* under every interleaving of play, pause, reset, manual steps and ticks:
\* no two goroutines that have not been told to stop tick on the same
\* engine
C39_OneAutoplayTask == Cardinality(RunningTasks) <= 1

\* the goroutines whose ticker has been made and is running
Ticking == {t \in TaskIds : tasks[t].pc \in {"select", "tick"}
                             /\ tickers[t] = "running"}

\* C36: setSpeed is accepted in every mode and leaves mode, cursor and
\* trace as they were; when autoplay is running, the ticker of autoplay
\* has the interval 1s / new speed once setSpeed has returned, without a
\* pause and a play in between
C36_SpeedGovernsAutoplay ==
  [][DoSetSpeed
       => /\ last'.err = NoErr
          /\ e'.mode = e.mode
          /\ e'.currentStep = e.currentStep
          /\ e'.steps = e.steps
          /\ \A t \in Ticking : tasks'[t].interval = Interval(e'.speed)]_vars

\* the chain of row r is non-empty, newest first, made of versions of the
\* table, headed by the row's current version and linked by Prev
ChainWellFormed(s, r) ==
  LET chain == s.Rows[r].VersionChain
  IN  /\ Len(chain) > 0
      /\ \A j \in 1..Len(chain) : chain[j] \in DOMAIN s.Versions
      /\ \A j \in 1..(Len(chain) - 1) : chain[j] > chain[j + 1]
      /\ s.Rows[r].CurrentVersion = chain[1]
      /\ \A j \in 1..Len(chain) :
            chain[j] \in DOMAIN s.Versions
              => s.Versions[chain[j]].Prev =
                   (IF j < Len(chain) THEN chain[j + 1] ELSE 0)

\* C37: after any write, delete, commit, abort or garbage collection that
\* returned, every row's chain is non-empty, newest first, made of versions
\* of the version table, headed by the row's current version and linked by
\* the predecessor links (none for the oldest); a Write puts its version at
\* the head, with the head before it as predecessor
C37_ChainsWellFormed ==
  [][/\ ~mdone'.panic
          => \A r \in DOMAIN store'.Rows : ChainWellFormed(store', r)
     /\ DoWrite /\ mdone'.err = NoErr
          => LET row == mdone'.row
                 before == IF row \in DOMAIN store.Rows
                             THEN store.Rows[row].VersionChain ELSE <<>>
             IN  /\ store'.Rows[row].VersionChain = <<mdone'.ver>> \o before
                 /\ store'.Versions[mdone'.ver].Prev =
                      (IF Len(before) > 0 THEN before[1] ELSE 0)]_vars

\* transaction a marked version v deleted and committed no later than the
\* active transaction t began
DeleteCommittedBefore(v, a, t) ==
  /\ <<v, a>> \in marks
  /\ v \in DOMAIN store.Versions
  /\ store.Transactions[a].Status = TxCommitted
  /\ store.Transactions[t].Status = TxActive
  /\ store.Transactions[a].CommitTime <= store.Transactions[t].StartTime

\* C40: a version that a transaction marked deleted is invisible to every
\* transaction that began after that transaction committed, whatever the
\* other transactions did to the version in between
C40_CommittedDeleteStays ==
  ~mdone.panic
    => \A v \in DOMAIN store.Versions, a, t \in DOMAIN store.Transactions :
          DeleteCommittedBefore(v, a, t) => ~isVisible(store, t, v)

\* no version of the chain of row is visible to tx in the store s
NoneVisible(s, tx, row) ==
  \A j \in 1..Len(s.Rows[row].VersionChain) :
     ~isVisible(s, tx, s.Rows[row].VersionChain[j])

\* a step of a read trace that is neither its opening step, nor a verdict
\* on a version, nor the report of a version found
SaysNotFound(st) == st.Title.text \notin {"Read", "Check", "Version Found"}

\* C38: when no version of the row's chain is visible to the reading
\* transaction, the trace generated for the read ends with a not-found
\* step and has no step that reports a version found
C38_NothingVisibleIsTraced ==
  [][(/\ DoPrepareRead
      /\ mdone'.tx \in ActiveTxs(store)
      /\ mdone'.row \in DOMAIN store.Rows
      /\ NoneVisible(store, mdone'.tx, mdone'.row))
       => /\ ~mdone'.panic
          /\ Len(msim'.steps) > 0
          /\ SaysNotFound(msim'.steps[Len(msim'.steps)])
          /\ Len(FoundOf(msim'.steps)) = 0]_vars

\* what GetState returns of an engine no method is inside of: of the engine
\* as it is when e.mu is free, and otherwise of the engine as the
\* StepForward in progress found it or as it will leave it
SettledStates ==
  IF mu.holder = 0 THEN {GetState(e, sim)}
  ELSE LET r == StepForward(mu.e, mu.sim, closed, tickers)
       IN  {GetState(mu.e, mu.sim), GetState(r.e, r.sim)}

\* C34: the getState query of the session manager and the stop of a removed
\* session act only while no other method holds the engine's lock, and the
\* state of a full-state payload is the state of the engine before or
\* after a concurrent stepForward, never one in between
C34_QueriesAreSerialized ==
  [][/\ (SessionGetState \/ RemoveSession) => mu.holder = 0
     /\ SessionGetState => polled'.state.State \in SettledStates]_vars

\* C35: once the session map has let go of an engine, through a new start
\* request or through RemoveSession, its autoplay stops: apart from a tick
\* that was already taken, no goroutine of the engine that has not been
\* told to stop emits a step event or a state event any more
C35_DiscardedEngineIsSilent ==
  [][\A t \in TaskIds :
        (Discarded /\ t \notin link.inflight /\ tasks[t].ch \notin closed)
          => ~(LoopStepEnd(t) \/ LoopPauseLocked(t))]_vars

====
